---- MODULE Spec2Model ----
(***************************************************************************)
(* The three-party replicated secret-sharing protocol layer of iris-mpc    *)
(* (iris-mpc-cpu/src/protocol/ops.rs): PRF setup, reshare of additive      *)
(* shares, signed lift, cross multiplication, threshold comparison and     *)
(* opening, run by three parties over FIFO channels.                       *)
(*                                                                         *)
(* Ring elements keep their width.  A u16 is an integer in 0..2^16-1; a    *)
(* u32 is a pair <<hi, lo>> of 16-bit limbs, because the model checker's   *)
(* integers are 32-bit signed and cannot hold 2^32-1.  All products are    *)
(* computed on 8- and 16-bit limbs so that no intermediate value exceeds   *)
(* 2^31-1.                                                                 *)
(***************************************************************************)
EXTENDS Integers, Sequences, FiniteSets, TLC

(***************************************************************************)
(* Bounds of the model.                                                    *)
(***************************************************************************)
\* randomness tapes 0..MaxTape (input sharing rng, randomness of lift / MSB)
MaxTape == 1
\* iris pairs handed to galois_ring_pairwise_distance: 1..MaxPairs
MaxPairs == 2
\* coefficients per modelled Galois-ring element (12800 / 6400 in the program)
CoefLen == 2
\* values lifted in one batch_signed_lift call of the lift scenario: 1..MaxBatch
MaxBatch == 2
\* PRF seeds are drawn from 0..MaxSeed in the setup scenario
MaxSeed == 2

(***************************************************************************)
(* Program constants (ops.rs:14-18).                                       *)
(***************************************************************************)
B_BITS == 16
B == 2 ^ B_BITS
\* MATCH_THRESHOLD_RATIO in thousandths (iris_mpc_common::iris_db::iris)
MATCH_THRESHOLD_RATIO_MILLI == 375
\* A = ((1. - 2. * MATCH_THRESHOLD_RATIO) * B as f64) as u64
A == ((1000 - 2 * MATCH_THRESHOLD_RATIO_MILLI) * B) \div 1000

Half == B \div 2
Byte == 2 ^ 8

(***************************************************************************)
(* Z_2^16: RingElement<u16>, wrapping arithmetic.                          *)
(***************************************************************************)
U16 == 0 .. (B - 1)
Add16(x, y) == (x + y) % B
Sub16(x, y) == (x - y + B) % B
\* wrapping_mul on u16, through 8-bit limbs of y
Mul16(x, y) == (x * (y % Byte) + ((x * (y \div Byte)) % Byte) * Byte) % B
\* a u16 read as i16
Signed16(v) == IF v >= Half THEN v - B ELSE v

(***************************************************************************)
(* Z_2^32: RingElement<u32> as <<hi, lo>>.                                 *)
(***************************************************************************)
U32(hi, lo) == <<hi, lo>>
Hi(x) == x[1]
Lo(x) == x[2]
Zero32 == U32(0, 0)
\* `as u32` of a u16: zero extension
FromU16(v) == U32(0, v)
Add32(x, y) == U32((Hi(x) + Hi(y) + ((Lo(x) + Lo(y)) \div B)) % B, (Lo(x) + Lo(y)) % B)
Neg32(x) == IF Lo(x) = 0 THEN U32((B - Hi(x)) % B, 0)
            ELSE U32(B - 1 - Hi(x), B - Lo(x))
Sub32(x, y) == Add32(x, Neg32(y))
\* the full 32-bit product of two 16-bit values
MulWide(a, b) ==
    LET p0 == (a % Byte) * b
        p1 == (a \div Byte) * b
        low == p0 + (p1 % Byte) * Byte
    IN  U32((p1 \div Byte) + (low \div B), low % B)
\* wrapping_mul on u32
Mul32(x, y) ==
    LET ll == MulWide(Lo(x), Lo(y))
    IN  U32(Add16(Hi(ll), Add16(Mul16(Hi(x), Lo(y)), Mul16(Lo(x), Hi(y)))), Lo(ll))
\* most significant bit of a u32
Msb32(x) == Hi(x) >= Half
\* an integer in -2^31 .. 2^31-1 as the u32 congruent to it
FromInt(n) == U32((n \div B) % B, n % B)

(***************************************************************************)
(* Roles (Role::next(3), Role::prev(3)).                                   *)
(***************************************************************************)
Party == {0, 1, 2}
NextRole(i) == (i + 1) % 3
PrevRole(i) == (i + 2) % 3

VARIABLES scenario, inp, tape, pc, prf, net, loc, out, zs, nsent

\* the protocol layer's state
protocolVars == <<scenario, inp, tape, pc, prf, net, loc, out, zs, nsent>>

\* the state of the other subsystems: the transport's fault budget, the match
\* client, the ingestion validator, the distance engine, the correlated rng
VARIABLES faults, client, ingest, gemm, rngs, monitor, devices

otherVars == <<faults, client, ingest, gemm, rngs, monitor, devices>>

vars == <<protocolVars, otherVars>>

\* the value of a subsystem's state in the runs that do not use it
Idle == "idle"

(***************************************************************************)
(* Deterministic pseudo-random streams.  The program draws from AesRng     *)
(* streams (the PRFs, the test's input rng); the model replaces them by a  *)
(* fixed mixing function of (seed, position).                              *)
(***************************************************************************)
Stream16(seed, k) ==
    ((seed + 1) * 25173 + (k + 1) * 13849 + (seed + 1) * (k + 1) * 977) % B
Stream32(seed, k) == U32(Stream16(seed + 5, k), Stream16(seed, k))

(***************************************************************************)
(* Share<T>: the pair (a, b) a party holds.  w is the ring width, 16 or    *)
(* 32.  Componentwise ring operations of section 4.2.                      *)
(***************************************************************************)
Share(a, b) == [a |-> a, b |-> b]
RAdd(w, x, y) == IF w = 16 THEN Add16(x, y) ELSE Add32(x, y)
RSub(w, x, y) == IF w = 16 THEN Sub16(x, y) ELSE Sub32(x, y)
RMul(w, x, y) == IF w = 16 THEN Mul16(x, y) ELSE Mul32(x, y)
ShareSub(w, s, t) == Share(RSub(w, s.a, t.a), RSub(w, s.b, t.b))
ShareMulConst(w, s, c) == Share(RMul(w, s.a, c), RMul(w, s.b, c))
\* Share * Share: the local semi-product a_x*a_y + a_x*b_y + b_x*a_y
ShareSemiMul(w, x, y) ==
    RAdd(w, RAdd(w, RMul(w, x.a, y.a), RMul(w, x.a, y.b)), RMul(w, x.b, y.a))
\* mutant: every party adds the constant to its a-coordinate
AddAssignConstRole_EveryParty(w, s, c, role) == Share(RAdd(w, s.a, c), s.b)
\* add_assign_const_role: the public constant enters the sharing once, as
\* the a-coordinate of role 0, which role 1 holds as its b-coordinate
AddAssignConstRole(w, s, c, role) ==
    CASE role = 0 -> Share(RAdd(w, s.a, c), s.b)
      [] role = 1 -> Share(s.a, RAdd(w, s.b, c))
      [] OTHER -> s
\* mul_lift_2k::<16>: each coordinate as u32, shifted left by 16 bits
MulLift2k(s) == Share(U32(s.a, 0), U32(s.b, 0))

(***************************************************************************)
(* Prf: two streams (mine, the previous party's), each with its position.  *)
(***************************************************************************)
NoPrf == [ready |-> FALSE, my |-> 0, other |-> 0, myCnt |-> 0, prevCnt |-> 0]
PrfNew(my_seed, other_seed) ==
    [ready |-> TRUE, my |-> my_seed, other |-> other_seed, myCnt |-> 0, prevCnt |-> 0]
PrfStream(w, seed, k) == IF w = 16 THEN Stream16(seed, k) ELSE Stream32(seed, k)
\* the value of the (j+1)-th gen_zero_share call from state p
GenZeroShare(w, p, j) ==
    RSub(w, PrfStream(w, p.my, p.myCnt + j), PrfStream(w, p.other, p.prevCnt + j))
\* the Prf after n gen_zero_share calls
PrfAdvance(p, n) == [p EXCEPT !.myCnt = @ + n, !.prevCnt = @ + n]

(***************************************************************************)
(* NetworkValue: the tagged wire values.                                   *)
(***************************************************************************)
Msg(tag, val) == [tag |-> tag, val |-> val]
VecTag(w) == IF w = 16 THEN "VecRing16" ELSE "VecRing32"

Min(a, b) == IF a < b THEN a ELSE b
\* Iterator::zip of two vectors into shares: as long as the shorter one
ZipShares(as, bs) == [k \in 1 .. Min(Len(as), Len(bs)) |-> Share(as[k], bs[k])]

(***************************************************************************)
(* Inputs.  The secrets of a run are inp.secrets; the parties' input       *)
(* shares are made from them as the tests' create_single_sharing does,     *)
(* with the rng stream selected by the tape.                               *)
(***************************************************************************)
\* create_single_sharing: the three shares of secret number k
CreateSingleSharing(t, k, input) ==
    LET a == Stream16(t + 20, 2 * k)
        b == Stream16(t + 20, 2 * k + 1)
        c == Sub16(Sub16(input, a), b)
    IN  <<Share(a, c), Share(b, a), Share(c, b)>>
\* party i's input share of secret number k
InputShare(i, k) == CreateSingleSharing(tape, k, inp.secrets[k])[i + 1]

\* GaloisRingSharedIris of party i: pair number k, side x or y
CodeLen == 2 * CoefLen
MaskLen == CoefLen
IrisShare(t, i, k, side) ==
    [code |-> [j \in 1 .. CodeLen |-> Stream16(t + 3 * i + 30, 16 * k + 2 * j + side)],
     mask |-> [j \in 1 .. MaskLen |-> Stream16(t + 3 * i + 40, 16 * k + 2 * j + side)]]
\* preprocess_iris_code_query_share and preprocess_mask_code_query_share
\* (GaloisRingIrisCodeShare, GaloisRingTrimmedMaskCodeShare): the share of
\* the party with id i + 1 is multiplied by that party's degree-2 Lagrange
\* coefficient at zero, 3, -3 and 1 for the points 1, 2 and 3
PreprocessIrisCodeQueryShare(coefs, i) ==
    [j \in 1 .. Len(coefs) |->
        Mul16(coefs[j], CASE i = 0 -> 3 [] i = 1 -> B - 3 [] OTHER -> 1)]
PreprocessMaskCodeQueryShare(coefs, i) ==
    [j \in 1 .. Len(coefs) |->
        Mul16(coefs[j], CASE i = 0 -> 3 [] i = 1 -> B - 3 [] OTHER -> 1)]
\* own_shares of party i: the pairs (x, y), with y.code and y.mask
\* preprocessed as query shares
IrisPairs(i) ==
    [k \in 1 .. inp.n |->
        [x |-> IrisShare(tape, i, k, 0),
         y |-> [code |-> PreprocessIrisCodeQueryShare(IrisShare(tape, i, k, 1).code, i),
                mask |-> PreprocessMaskCodeQueryShare(IrisShare(tape, i, k, 1).mask, i)]]]

\* trick_dot: the wrapping u16 dot product of the coefficient vectors
RECURSIVE DotUpTo(_, _, _)
DotUpTo(x, y, n) == IF n = 0 THEN 0 ELSE Add16(DotUpTo(x, y, n - 1), Mul16(x[n], y[n]))
TrickDot(x, y) == DotUpTo(x, y, Len(x))

\* mutant: the mask dot is not doubled
MaskEntry_NoDouble(mask_dot) == mask_dot
\* the mask entry of galois_ring_pairwise_distance: RingElement(2) * RingElement(mask_dot)
MaskEntry(mask_dot) == Mul16(2, mask_dot)
\* galois_ring_pairwise_distance: code_dot, 2 * mask_dot per pair, in order
GaloisRingPairwiseDistance(pairs) ==
    [m \in 1 .. 2 * Len(pairs) |->
        LET pair == pairs[(m + 1) \div 2]
        IN  IF m % 2 = 1 THEN TrickDot(pair.x.code, pair.y.code)
            ELSE MaskEntry(TrickDot(pair.x.mask, pair.y.mask))]

Edge16 == {0, 1, Half - 1, Half, B - 1}
TestSeeds == [i \in Party |-> i]
CrossInputs == {<<1, 2, 3, 4>>} \cup [1 .. 4 -> Edge16]
\* dot products around the threshold (mask = 4 * code), and of either sign
DotValues == {0, 1, 2, 4, 7, 8, 9, Half - 1, Half, Half + 7232, B - 2, B - 1}

NoLocals ==
    [x16 |-> <<>>, sentA |-> <<>>, sh16 |-> <<>>, pre |-> <<>>, sh32 |-> <<>>,
     y |-> Share(Zero32, Zero32), x32 |-> Share(Zero32, Zero32),
     bit |-> Share(0, 0), w |-> 16, k |-> 1]

InitCommon ==
    /\ pc = [i \in Party |-> "start"]
    /\ prf = [i \in Party |-> NoPrf]
    /\ net = [i \in Party |-> <<>>]
    /\ loc = [i \in Party |-> NoLocals]
    /\ out = [i \in Party |-> <<>>]
    /\ zs = [i \in Party |-> <<>>]
    /\ nsent = [i \in Party |-> 0]
    /\ tape \in 0 .. MaxTape
    /\ client = Idle
    /\ ingest = Idle
    /\ gemm = Idle
    /\ rngs = Idle
    /\ monitor = Idle /\ devices = Idle

\* galois_ring_pairwise_distance, galois_ring_to_rep3, open_t_many
InitReshare ==
    /\ scenario = "reshare"
    /\ \E sd \in [Party -> 0 .. MaxSeed], n \in 1 .. MaxPairs :
          inp = [seeds |-> sd, secrets |-> <<>>, n |-> n]
\* cross_mul_via_lift and open_single (cross), cross_compare (crosscmp)
InitCross ==
    /\ scenario \in {"cross", "crosscmp"}
    /\ \E sec \in CrossInputs : inp = [seeds |-> TestSeeds, secrets |-> sec, n |-> 0]
\* compare_threshold and open_bin (is_dot_zero)
InitThreshold ==
    /\ scenario = "threshold"
    /\ \E c \in DotValues, m \in DotValues :
          inp = [seeds |-> TestSeeds, secrets |-> <<c, m>>, n |-> 0]
\* batch_signed_lift and open_t_many
InitSignedLift ==
    /\ scenario = "slift"
    /\ \E n \in 1 .. MaxBatch : \E sec \in [1 .. n -> Edge16] :
          inp = [seeds |-> TestSeeds, secrets |-> sec, n |-> 0]

\* galois_ring_is_match on a slice of one pair, or of more
InitIsMatch ==
    /\ scenario = "ismatch"
    /\ \E n \in 1 .. MaxPairs : inp = [seeds |-> TestSeeds, secrets |-> <<>>, n |-> n]

Init ==
    /\ InitCommon
    /\ faults = 0
    /\ InitReshare \/ InitCross \/ InitThreshold \/ InitSignedLift \/ InitIsMatch

(***************************************************************************)
(* Sending and receiving.  net[i] is the FIFO channel from party i to its  *)
(* next party; a receive blocks until the channel holds a message.         *)
(***************************************************************************)
CanReceive(i) == net[PrevRole(i)] # <<>>
\* mutant: the receive hands over the newest message of the channel
Received_Newest(i) == net[PrevRole(i)][Len(net[PrevRole(i)])]
Received(i) == Head(net[PrevRole(i)])
Send(i, m) == /\ net' = [net EXCEPT ![i] = Append(@, m)]
              /\ nsent' = [nsent EXCEPT ![i] = @ + 1]
Receive(i) == /\ net' = [net EXCEPT ![PrevRole(i)] = Tail(@)]
              /\ UNCHANGED nsent
Goto(i, label) == pc' = [pc EXCEPT ![i] = label]

(***************************************************************************)
(* setup_replicated_prf (ops.rs:24-47).                                    *)
(***************************************************************************)
\* mutant: the default seed is sent instead of the party's own
SetupMessage_Default(my_seed) == Msg("PrfKey", 0)
\* the value sent to the next party
SetupMessage(my_seed) == Msg("PrfKey", my_seed)
\* mutant: the two seeds are passed to Prf::new in the wrong order
SetupPrf_Swapped(my_seed, other_seed) == PrfNew(other_seed, my_seed)
\* the Prf built from the own and the received seed
SetupPrf(my_seed, other_seed) == PrfNew(my_seed, other_seed)

SetupSend(i) ==
    /\ pc[i] = "start"
    /\ Send(i, SetupMessage(inp.seeds[i]))
    /\ Goto(i, "setup_recv")
    /\ UNCHANGED <<otherVars, scenario, inp, tape, prf, loc, out, zs>>

\* mutant: the received value is used whatever its tag
SetupRecv_NoTagCheck(i) ==
    /\ pc[i] = "setup_recv"
    /\ CanReceive(i)
    /\ Receive(i)
    /\ prf' = [prf EXCEPT ![i] = SetupPrf(inp.seeds[i], Received(i).val)]
    /\ Goto(i, "ready")
    /\ UNCHANGED <<otherVars, scenario, inp, tape, loc, out, zs>>

SetupRecv(i) ==
    /\ pc[i] = "setup_recv"
    /\ CanReceive(i)
    /\ Receive(i)
    /\ IF Received(i).tag = "PrfKey"
       THEN /\ prf' = [prf EXCEPT ![i] = SetupPrf(inp.seeds[i], Received(i).val)]
            /\ Goto(i, "ready")
       ELSE /\ Goto(i, "error")
            /\ UNCHANGED prf
    /\ UNCHANGED <<otherVars, scenario, inp, tape, loc, out, zs>>

(***************************************************************************)
(* galois_ring_pairwise_distance (ops.rs:186-202): local, no message.      *)
(***************************************************************************)
PairwiseDistance(i) ==
    /\ pc[i] = "ready"
    /\ scenario \in {"reshare", "session"}
    /\ loc' = [loc EXCEPT ![i].x16 = GaloisRingPairwiseDistance(IrisPairs(i))]
    /\ Goto(i, "dist_done")
    /\ UNCHANGED <<otherVars, scenario, inp, tape, prf, net, out, zs, nsent>>

(***************************************************************************)
(* galois_ring_is_match (ops.rs:254-265): asserts that there is one pair,  *)
(* then galois_ring_pairwise_distance, galois_ring_to_rep3,                *)
(* compare_threshold on the two replicated dots, open_bin.                 *)
(***************************************************************************)
\* the argument pairs of party i: the shares as the caller holds them
IsMatchPairs(i) ==
    [k \in 1 .. inp.n |-> [x |-> IrisShare(tape, i, k, 0), y |-> IrisShare(tape, i, k, 1)]]

GaloisRingIsMatch(i) ==
    /\ pc[i] = "ready"
    /\ scenario = "ismatch"
    /\ IF Len(IsMatchPairs(i)) = 1
       THEN /\ loc' = [loc EXCEPT ![i].x16 = GaloisRingPairwiseDistance(IsMatchPairs(i))]
            /\ Goto(i, "dist_done")
       ELSE /\ Goto(i, "panicked")
            /\ UNCHANGED loc
    /\ UNCHANGED <<otherVars, scenario, inp, tape, prf, net, out, zs, nsent>>

(***************************************************************************)
(* galois_ring_to_rep3 (ops.rs:206-246).                                   *)
(***************************************************************************)
\* the zero-shares drawn for n items from Prf p, in order
ZeroShares(w, p, n) == [k \in 1 .. n |-> [w |-> w, v |-> GenZeroShare(w, p, k - 1)]]
\* mutant: the item is subtracted from the zero-share instead of added
ToRep3Masked_Sub(p, items) ==
    [k \in 1 .. Len(items) |-> Sub16(GenZeroShare(16, p, k - 1), items[k])]
\* masked_items: gen_zero_share() + x for every item
ToRep3Masked(p, items) ==
    [k \in 1 .. Len(items) |-> Add16(GenZeroShare(16, p, k - 1), items[k])]
\* mutant: the received value becomes the a-coordinate
ToRep3Result_Swapped(masked_items, shares_b) == ZipShares(shares_b, masked_items)
\* the result: Share::new(a, b) over masked_items zipped with the received vector
ToRep3Result(masked_items, shares_b) == ZipShares(masked_items, shares_b)

\* mutant: the party waits for the vector of its previous party before it
\* sends its own
ToRep3Send_ReceivesFirst(i) ==
    /\ pc[i] = "dist_done"
    /\ CanReceive(i)
    /\ LET items == loc[i].x16
           masked == ToRep3Masked(prf[i], items)
       IN  /\ Send(i, Msg("VecRing16", masked))
           /\ loc' = [loc EXCEPT ![i].sentA = masked]
           /\ zs' = [zs EXCEPT ![i] = @ \o ZeroShares(16, prf[i], Len(items))]
           /\ prf' = [prf EXCEPT ![i] = PrfAdvance(@, Len(items))]
    /\ Goto(i, "rep3_recv")
    /\ UNCHANGED <<otherVars, scenario, inp, tape, out>>

ToRep3Send(i) ==
    /\ pc[i] = "dist_done"
    /\ LET items == loc[i].x16
           masked == ToRep3Masked(prf[i], items)
       IN  /\ Send(i, Msg("VecRing16", masked))
           /\ loc' = [loc EXCEPT ![i].sentA = masked]
           /\ zs' = [zs EXCEPT ![i] = @ \o ZeroShares(16, prf[i], Len(items))]
           /\ prf' = [prf EXCEPT ![i] = PrfAdvance(@, Len(items))]
    /\ Goto(i, "rep3_recv")
    /\ UNCHANGED <<otherVars, scenario, inp, tape, out>>

\* mutant: a value that is not a VecRing16 is dropped and the party waits
\* for the next one
ToRep3Recv_WaitsAgain(i) ==
    /\ pc[i] = "rep3_recv"
    /\ CanReceive(i)
    /\ Receive(i)
    /\ IF Received(i).tag = "VecRing16"
       THEN /\ loc' = [loc EXCEPT ![i].sh16 = ToRep3Result(loc[i].sentA, Received(i).val),
                                  ![i].w = 16]
            /\ Goto(i, "rep3_done")
       ELSE /\ UNCHANGED pc
            /\ UNCHANGED loc
    /\ UNCHANGED <<otherVars, scenario, inp, tape, prf, out, zs>>
ToRep3Recv(i) ==
    /\ pc[i] = "rep3_recv"
    /\ CanReceive(i)
    /\ Receive(i)
    /\ IF Received(i).tag = "VecRing16"
       THEN /\ loc' = [loc EXCEPT ![i].sh16 = ToRep3Result(loc[i].sentA, Received(i).val),
                                  ![i].w = 16]
            /\ Goto(i, "rep3_done")
       ELSE /\ Goto(i, "error")
            /\ UNCHANGED loc
    /\ UNCHANGED <<otherVars, scenario, inp, tape, prf, out, zs>>

(***************************************************************************)
(* Opening (the tests' open_t_many, ops.rs:315-350, and open_single,       *)
(* ops.rs:295-313): send the b-coordinate to next, receive the missing     *)
(* share from prev, add the three.                                         *)
(***************************************************************************)
\* the shares a party is about to open
ToOpen(i) == IF loc[i].w = 16 THEN loc[i].sh16 ELSE loc[i].sh32
\* open_t_many: the vector sent
OpenManyMessage(w, shares) == Msg(VecTag(w), [k \in 1 .. Len(shares) |-> shares[k].b])
\* open_t_many: a + b + c over the shares zipped with the received vector
OpenManyResult(w, shares, shares_c) ==
    [k \in 1 .. Min(Len(shares), Len(shares_c)) |->
        RAdd(w, RAdd(w, shares[k].a, shares[k].b), shares_c[k])]
\* mutant: the a-coordinate is sent instead of the b-coordinate
OpenSingleMessage_SendsA(x) == Msg("RingElement32", x.a)
\* open_single: the value sent
OpenSingleMessage(x) == Msg("RingElement32", x.b)
\* open_single: a + b + missing_share
OpenSingleResult(x, missing_share) == Add32(Add32(x.a, x.b), missing_share)

OpenManySend(i) ==
    /\ \/ pc[i] = "rep3_done" /\ scenario = "reshare"
       \/ pc[i] = "slift_done"
    /\ Send(i, OpenManyMessage(loc[i].w, ToOpen(i)))
    /\ Goto(i, "openmany_recv")
    /\ UNCHANGED <<otherVars, scenario, inp, tape, prf, loc, out, zs>>

OpenManyRecv(i) ==
    /\ pc[i] = "openmany_recv"
    /\ CanReceive(i)
    /\ Receive(i)
    /\ IF Received(i).tag = VecTag(loc[i].w)
       THEN /\ out' = [out EXCEPT ![i] = OpenManyResult(loc[i].w, ToOpen(i), Received(i).val)]
            /\ Goto(i, "done")
       ELSE /\ Goto(i, "error")
            /\ UNCHANGED out
    /\ UNCHANGED <<otherVars, scenario, inp, tape, prf, loc, zs>>

\* open_single on the loc[i].k-th share of cross_mul_via_lift's result, as
\* test_replicated_cross_mul_lift opens out_shared.0, then out_shared.1
OpenSingleSend(i) ==
    /\ \/ pc[i] = "open_send"
       \/ pc[i] = "cross_done" /\ scenario = "cross"
    /\ Send(i, OpenSingleMessage(loc[i].sh32[loc[i].k]))
    /\ Goto(i, "open_recv")
    /\ UNCHANGED <<otherVars, scenario, inp, tape, prf, loc, out, zs>>

OpenSingleRecv(i) ==
    /\ pc[i] = "open_recv"
    /\ CanReceive(i)
    /\ Receive(i)
    /\ IF Received(i).tag = "RingElement32"
       THEN /\ out' = [out EXCEPT ![i] =
                          Append(@, OpenSingleResult(loc[i].sh32[loc[i].k], Received(i).val))]
            /\ IF loc[i].k < Len(loc[i].sh32)
               THEN /\ loc' = [loc EXCEPT ![i].k = @ + 1]
                    /\ Goto(i, "open_send")
               ELSE /\ Goto(i, "done")
                    /\ UNCHANGED loc
       ELSE /\ Goto(i, "error")
            /\ UNCHANGED <<out, loc>>
    /\ UNCHANGED <<otherVars, scenario, inp, tape, prf, zs>>

(***************************************************************************)
(* lift::<16> and single_extract_msb_u32::<32> (protocol/binary.rs) are    *)
(* interactive sub-protocols of all three parties.  They are modelled by   *)
(* what section 4.3 and the glossary say they compute: once every party    *)
(* has entered, each receives its share of a fresh sharing of the result.  *)
(***************************************************************************)
\* the secret of a sharing: the sum of the three a-coordinates
Secret(w, a0, a1, a2) == RAdd(w, RAdd(w, a0, a1), a2)
\* a fresh replicated sharing over Z_2^32 of value v, number k on tape t
FreshSharing32(t, k, v) ==
    LET r0 == Stream32(t + 50, 2 * k)
        r1 == Stream32(t + 50, 2 * k + 1)
        r2 == Sub32(Sub32(v, r0), r1)
    IN  <<Share(r0, r2), Share(r1, r0), Share(r2, r1)>>
\* lift: the u16 secret, read as a non-negative integer, shared over Z_2^32
LiftValue(v16) == FromU16(v16)
Xor(x, y) == (x + y) % 2
\* a fresh replicated sharing over Z_2 of bit v
FreshSharingBit(t, v) ==
    LET r0 == Stream16(t + 60, 0) % 2
        r1 == Stream16(t + 60, 1) % 2
        r2 == Xor(Xor(v, r0), r1)
    IN  <<Share(r0, r2), Share(r1, r0), Share(r2, r1)>>
\* MSB extraction: the sign bit of the shared u32
MsbValue(v32) == IF Msb32(v32) THEN 1 ELSE 0

LiftF ==
    /\ \A i \in Party : pc[i] = "lift_wait"
    /\ LET n == Len(loc[0].pre)
           v(k) == Secret(16, loc[0].pre[k].a, loc[1].pre[k].a, loc[2].pre[k].a)
       IN  loc' = [i \in Party |->
                     [loc[i] EXCEPT !.sh32 =
                         [k \in 1 .. n |-> FreshSharing32(tape, k, LiftValue(v(k)))[i + 1]]]]
    /\ pc' = [i \in Party |-> "lifted"]
    /\ UNCHANGED <<otherVars, scenario, inp, tape, prf, net, out, zs, nsent>>

MsbF ==
    /\ \A i \in Party : pc[i] = "msb_wait"
    /\ LET v == Secret(32, loc[0].x32.a, loc[1].x32.a, loc[2].x32.a)
       IN  loc' = [i \in Party |->
                     [loc[i] EXCEPT !.bit = FreshSharingBit(tape, MsbValue(v))[i + 1]]]
    /\ pc' = [i \in Party |-> "msb_done"]
    /\ UNCHANGED <<otherVars, scenario, inp, tape, prf, net, out, zs, nsent>>

(***************************************************************************)
(* open_bin (protocol/binary.rs): the opening round on a bit share.        *)
(***************************************************************************)
OpenBinSend(i) ==
    /\ pc[i] = "msb_done"
    /\ Send(i, Msg("Bit", loc[i].bit.b))
    /\ Goto(i, "openbin_recv")
    /\ UNCHANGED <<otherVars, scenario, inp, tape, prf, loc, out, zs>>

OpenBinRecv(i) ==
    /\ pc[i] = "openbin_recv"
    /\ CanReceive(i)
    /\ Receive(i)
    /\ IF Received(i).tag = "Bit"
       THEN /\ out' = [out EXCEPT ![i] =
                          <<Xor(Xor(loc[i].bit.a, loc[i].bit.b), Received(i).val) = 1>>]
            /\ Goto(i, "done")
       ELSE /\ Goto(i, "error")
            /\ UNCHANGED out
    /\ UNCHANGED <<otherVars, scenario, inp, tape, prf, loc, zs>>

(***************************************************************************)
(* batch_signed_lift (ops.rs:72-88).                                       *)
(***************************************************************************)
\* 1_u16 << 15
SignShift16 == 2 ^ 15
\* ((1_u64 << 32) - (1_u64 << 15)) as u32 = 0xFFFF8000
SignShift32 == U32(B - 1, 2 ^ 15)
\* before the lift: v.add_assign_const_role(1 << 15, own_role) for every v
SignedLiftPre(pre_lift, role) ==
    [k \in 1 .. Len(pre_lift) |-> AddAssignConstRole(16, pre_lift[k], SignShift16, role)]
\* mutant: 2^15 is added again after the lift instead of subtracted
SignedLiftPost_AddsShift(lifted_values, role) ==
    [k \in 1 .. Len(lifted_values) |->
        AddAssignConstRole(32, lifted_values[k], U32(0, SignShift16), role)]
\* after the lift: v.add_assign_const_role(2^32 - 2^15, own_role) for every v
SignedLiftPost(lifted_values, role) ==
    [k \in 1 .. Len(lifted_values) |->
        AddAssignConstRole(32, lifted_values[k], SignShift32, role)]

SignedLiftBegin(i) ==
    /\ pc[i] = "ready"
    /\ scenario = "slift"
    /\ loc' = [loc EXCEPT ![i].pre =
                  SignedLiftPre([k \in 1 .. Len(inp.secrets) |-> InputShare(i, k)], i)]
    /\ Goto(i, "lift_wait")
    /\ UNCHANGED <<otherVars, scenario, inp, tape, prf, net, out, zs, nsent>>

SignedLiftEnd(i) ==
    /\ pc[i] = "lifted"
    /\ scenario = "slift"
    /\ loc' = [loc EXCEPT ![i].sh32 = SignedLiftPost(loc[i].sh32, i), ![i].w = 32]
    /\ Goto(i, "slift_done")
    /\ UNCHANGED <<otherVars, scenario, inp, tape, prf, net, out, zs, nsent>>

(***************************************************************************)
(* cross_mul_via_lift (ops.rs:91-157).                                     *)
(***************************************************************************)
\* mutant: the four shares are pushed in argument order
CrossPreLift_ArgOrder(d1, t1, d2, t2) == <<d1, t1, d2, t2>>
\* pre_lift: d1, t2, d2, t1 pushed in this order
CrossPreLift(d1, t1, d2, t2) == <<d1, t2, d2, t1>>
\* pairs: (lifted[0], lifted[1]) and (lifted[2], lifted[3])
CrossPairs(lifted_values) ==
    <<<<lifted_values[1], lifted_values[2]>>, <<lifted_values[3], lifted_values[4]>>>>
\* exchanged_shares_a: gen_zero_share() + x * y for every pair
CrossExchanged(p, lifted_values) ==
    [k \in 1 .. 2 |->
        LET pair == CrossPairs(lifted_values)[k]
        IN  Add32(GenZeroShare(32, p, k - 1), ShareSemiMul(32, pair[1], pair[2]))]
\* the result: Share::new(a_share, b_share) over the sent and the received vector
CrossResult(exchanged_shares_a, res_b) == ZipShares(exchanged_shares_a, res_b)

CrossMulBegin(i) ==
    /\ pc[i] = "ready"
    /\ scenario \in {"cross", "crosscmp"}
    /\ loc' = [loc EXCEPT ![i].pre =
                  SignedLiftPre(CrossPreLift(InputShare(i, 1), InputShare(i, 2),
                                             InputShare(i, 3), InputShare(i, 4)), i)]
    /\ Goto(i, "lift_wait")
    /\ UNCHANGED <<otherVars, scenario, inp, tape, prf, net, out, zs, nsent>>

\* mutant: one zero-share is drawn for the two products
CrossMulSend_OneDraw(i) ==
    /\ pc[i] = "lifted"
    /\ scenario \in {"cross", "crosscmp", "session"}
    /\ LET lifted_values == SignedLiftPost(loc[i].sh32, i)
           exchanged == CrossExchanged(prf[i], lifted_values)
       IN  /\ Send(i, Msg("VecRing32", exchanged))
           /\ loc' = [loc EXCEPT ![i].sh32 = lifted_values, ![i].sentA = exchanged]
           /\ zs' = [zs EXCEPT ![i] = @ \o ZeroShares(32, prf[i], 1)]
           /\ prf' = [prf EXCEPT ![i] = PrfAdvance(@, 1)]
    /\ Goto(i, "cross_recv")
    /\ UNCHANGED <<otherVars, scenario, inp, tape, out>>
CrossMulSend(i) ==
    /\ pc[i] = "lifted"
    /\ scenario \in {"cross", "crosscmp", "session"}
    /\ LET lifted_values == SignedLiftPost(loc[i].sh32, i)
           exchanged == CrossExchanged(prf[i], lifted_values)
       IN  /\ Send(i, Msg("VecRing32", exchanged))
           /\ loc' = [loc EXCEPT ![i].sh32 = lifted_values, ![i].sentA = exchanged]
           /\ zs' = [zs EXCEPT ![i] = @ \o ZeroShares(32, prf[i], 2)]
           /\ prf' = [prf EXCEPT ![i] = PrfAdvance(@, 2)]
    /\ Goto(i, "cross_recv")
    /\ UNCHANGED <<otherVars, scenario, inp, tape, out>>

\* mutant: the length of the received vector is not compared
CrossMulRecv_NoLengthCheck(i) ==
    /\ pc[i] = "cross_recv"
    /\ CanReceive(i)
    /\ Receive(i)
    /\ IF Received(i).tag = "VecRing32"
       THEN /\ loc' = [loc EXCEPT ![i].sh32 = CrossResult(loc[i].sentA, Received(i).val),
                                  ![i].w = 32, ![i].k = 1]
            /\ Goto(i, "cross_done")
       ELSE /\ Goto(i, "error")
            /\ UNCHANGED loc
    /\ UNCHANGED <<otherVars, scenario, inp, tape, prf, out, zs>>

CrossMulRecv(i) ==
    /\ pc[i] = "cross_recv"
    /\ CanReceive(i)
    /\ Receive(i)
    /\ IF /\ Received(i).tag = "VecRing32"
          /\ Len(loc[i].sentA) = Len(Received(i).val)
       THEN /\ loc' = [loc EXCEPT ![i].sh32 = CrossResult(loc[i].sentA, Received(i).val),
                                  ![i].w = 32, ![i].k = 1]
            /\ Goto(i, "cross_done")
       ELSE /\ Goto(i, "error")
            /\ UNCHANGED loc
    /\ UNCHANGED <<otherVars, scenario, inp, tape, prf, out, zs>>

(***************************************************************************)
(* cross_compare (ops.rs:167-181): cross_mul_via_lift, the difference, the *)
(* MSB, open_bin.                                                          *)
(***************************************************************************)
\* mutant: the products are subtracted the other way round
CrossDiff_Reversed(d1t2, d2t1) == ShareSub(32, d1t2, d2t1)
\* diff = d2t1 - d1t2 on the pair (d1t2, d2t1) cross_mul_via_lift returned
CrossDiff(d1t2, d2t1) == ShareSub(32, d2t1, d1t2)

CrossCompareDiff(i) ==
    /\ pc[i] = "cross_done"
    /\ scenario = "crosscmp"
    /\ loc' = [loc EXCEPT ![i].x32 = CrossDiff(loc[i].sh32[1], loc[i].sh32[2])]
    /\ Goto(i, "msb_wait")
    /\ UNCHANGED <<otherVars, scenario, inp, tape, prf, net, out, zs, nsent>>

(***************************************************************************)
(* compare_threshold (ops.rs:55-70), opened as is_dot_zero does, and as    *)
(* galois_ring_is_match does on the shares galois_ring_to_rep3 returned.   *)
(***************************************************************************)
\* the arguments code_dot, mask_dot of party i's call
ThresholdArgs(i) ==
    IF scenario = "threshold" THEN <<InputShare(i, 1), InputShare(i, 2)>>
    ELSE <<loc[i].sh16[1], loc[i].sh16[2]>>
\* mutant: the multiplication by A is left out
ThresholdDiff_NoScale(x, y) == ShareSub(32, x, y)
\* mutant: only the a-coordinate is scaled and reduced
ThresholdDiff_OnlyA(x, y) == Share(Sub32(Mul32(x.a, U32(0, A)), y.a), x.b)
\* x *= A as u32; x -= y
ThresholdDiff(x, y) == ShareSub(32, ShareMulConst(32, x, U32(0, A)), y)

\* mutant: the difference is handed to the MSB extraction without the lift
CompareThresholdBegin_NoLift(i) ==
    /\ \/ pc[i] = "ready" /\ scenario = "threshold"
       \/ pc[i] = "rep3_done" /\ scenario = "ismatch"
    /\ loc' = [loc EXCEPT ![i].y = MulLift2k(ThresholdArgs(i)[1]),
                          ![i].pre = <<ThresholdArgs(i)[2]>>]
    /\ Goto(i, "msb_wait")
    /\ UNCHANGED <<otherVars, scenario, inp, tape, prf, net, out, zs, nsent>>
CompareThresholdBegin(i) ==
    /\ \/ pc[i] = "ready" /\ scenario = "threshold"
       \/ pc[i] = "rep3_done" /\ scenario = "ismatch"
    /\ loc' = [loc EXCEPT ![i].y = MulLift2k(ThresholdArgs(i)[1]),
                          ![i].pre = <<ThresholdArgs(i)[2]>>]
    /\ Goto(i, "lift_wait")
    /\ UNCHANGED <<otherVars, scenario, inp, tape, prf, net, out, zs, nsent>>

CompareThresholdEnd(i) ==
    /\ pc[i] = "lifted"
    /\ scenario \in {"threshold", "ismatch"}
    /\ loc' = [loc EXCEPT ![i].x32 = ThresholdDiff(loc[i].sh32[Len(loc[i].sh32)], loc[i].y)]
    /\ Goto(i, "msb_wait")
    /\ UNCHANGED <<otherVars, scenario, inp, tape, prf, net, out, zs, nsent>>

(***************************************************************************)
(* The three parties run at arbitrary relative speeds.                     *)
(***************************************************************************)
PartyStep(i) ==
    \/ SetupSend(i)
    \/ SetupRecv(i)
    \/ PairwiseDistance(i)
    \/ GaloisRingIsMatch(i)
    \/ ToRep3Send(i)
    \/ ToRep3Recv(i)
    \/ OpenManySend(i)
    \/ OpenManyRecv(i)
    \/ OpenSingleSend(i)
    \/ OpenSingleRecv(i)
    \/ SignedLiftBegin(i)
    \/ SignedLiftEnd(i)
    \/ CrossMulBegin(i)
    \/ CrossMulSend(i)
    \/ CrossMulRecv(i)
    \/ CrossCompareDiff(i)
    \/ CompareThresholdBegin(i)
    \/ CompareThresholdEnd(i)
    \/ OpenBinSend(i)
    \/ OpenBinRecv(i)

Next == (\E i \in Party : PartyStep(i)) \/ LiftF \/ MsbF

Spec == Init /\ [][Next]_vars

(***************************************************************************)
(* Properties.                                                             *)
(***************************************************************************)
AllDone == \A i \in Party : pc[i] = "done"
\* a u16 sign-extended to 32 bits
SignExtend(v) == IF v >= Half THEN U32(B - 1, v) ELSE U32(0, v)
\* x < y on u32 read as unsigned integers
Less32(x, y) == Hi(x) < Hi(y) \/ (Hi(x) = Hi(y) /\ Lo(x) < Lo(y))
\* mask * A < code * B over integers, code possibly negative: with B a power
\* of two and code an integer this is floor(mask * A / B) < code
BelowThreshold(code, mask) == (mask * A) \div B < code
\* mask * A - code * B < 2^31: the difference fits a signed 32-bit integer
\* (it always exceeds -2^31)
ThresholdFits(code, mask) == (mask * A) \div B < Half + code

\* the secrets code_dot, mask_dot that compare_threshold was called on: the
\* test's inputs, or the sums of the three parties' additive dots
ThresholdSecrets ==
    IF scenario = "threshold" THEN inp.secrets
    ELSE [k \in 1 .. 2 |-> Secret(16, loc[0].x16[k], loc[1].x16[k], loc[2].x16[k])]

\* C1 as stated: the opened bit of compare_threshold equals
\* mask_dot * A < code_dot * B over the 16-bit secrets (values 0..2^16-1).
C1_ThresholdAsStated ==
    \A i \in Party :
        (scenario \in {"threshold", "ismatch"} /\ pc[i] = "done")
            => out[i] = <<BelowThreshold(ThresholdSecrets[1], ThresholdSecrets[2])>>

\* C1 amended: the opened bit of compare_threshold equals
\* mask_dot * A < c * B, where c is code_dot read as a signed 16-bit value,
\* whenever mask_dot * A - c * B < 2^31.
C1_ThresholdSigned ==
    \A i \in Party :
        (/\ scenario \in {"threshold", "ismatch"}
         /\ pc[i] = "done"
         /\ ThresholdFits(Signed16(ThresholdSecrets[1]), ThresholdSecrets[2]))
            => out[i] = <<BelowThreshold(Signed16(ThresholdSecrets[1]), ThresholdSecrets[2])>>

\* compare_threshold has been opened to true on code_dot = 1, mask_dot = 2
C1_Witness ==
    /\ scenario = "threshold"
    /\ AllDone
    /\ inp.secrets = <<1, 2>>
    /\ out[0] = <<TRUE>>

\* C2 as stated: cross_compare returns to every party true iff
\* d2 * t1 > d1 * t2 over the true secrets.
C2_CrossCompareGreater ==
    \A i \in Party :
        (scenario = "crosscmp" /\ pc[i] = "done")
            => out[i] = <<Signed16(inp.secrets[3]) * Signed16(inp.secrets[2])
                            > Signed16(inp.secrets[1]) * Signed16(inp.secrets[4])>>

\* C3 as stated: the results of cross_mul_via_lift open to
\* (d1 * t2, d2 * t1) mod 2^32 over the 16-bit secrets (values 0..2^16-1).
C3_CrossMulUnsigned ==
    \A i \in Party :
        (scenario = "cross" /\ pc[i] = "done")
            => out[i] = <<MulWide(inp.secrets[1], inp.secrets[4]),
                          MulWide(inp.secrets[3], inp.secrets[2])>>

\* C3 amended: the results of cross_mul_via_lift open to (d1 * t2, d2 * t1)
\* mod 2^32, in that order, with d1, t1, d2, t2 read as signed 16-bit
\* values; shares of (1, 2, 3, 4) open to (4, 6).
C3_CrossMulSigned ==
    \A i \in Party :
        (scenario = "cross" /\ pc[i] = "done")
            => /\ out[i] = <<FromInt(Signed16(inp.secrets[1]) * Signed16(inp.secrets[4])),
                             FromInt(Signed16(inp.secrets[3]) * Signed16(inp.secrets[2]))>>
               /\ inp.secrets = <<1, 2, 3, 4>> => out[i] = <<U32(0, 4), U32(0, 6)>>

\* the test's case: (1, 2, 3, 4) has been multiplied and opened to (4, 6)
C3_Witness ==
    /\ scenario = "cross"
    /\ AllDone
    /\ inp.secrets = <<1, 2, 3, 4>>
    /\ out[0] = <<U32(0, 4), U32(0, 6)>>

\* C4: opening the result of galois_ring_to_rep3 gives, at every index, the
\* sum mod 2^16 of the three parties' additive inputs, and as many values as
\* there were inputs.
C4_ReshareOpensToSum ==
    \A i \in Party :
        (scenario = "reshare" /\ pc[i] = "done")
            => /\ Len(out[i]) = 2 * inp.n
               /\ \A j \in 1 .. 2 * inp.n :
                     out[i][j] = (loc[0].x16[j] + loc[1].x16[j] + loc[2].x16[j]) % B

\* every party has opened the reshared vector of the largest batch, and the
\* masking was not trivial
C4_Witness ==
    /\ scenario = "reshare"
    /\ AllDone
    /\ inp.n = MaxPairs
    /\ \E j \in 1 .. 2 * inp.n : loc[0].sentA[j] # loc[0].x16[j]
    /\ out[0][1] = (loc[0].x16[1] + loc[1].x16[1] + loc[2].x16[1]) % B

\* the parties that hold the result of galois_ring_to_rep3
HasRep3(i) == scenario = "reshare" /\ pc[i] \in {"rep3_done", "openmany_recv", "done"}
\* the parties that hold the result of cross_mul_via_lift
HasCross(i) ==
    /\ scenario \in {"cross", "crosscmp"}
    /\ pc[i] \in {"cross_done", "open_send", "open_recv", "msb_wait", "msb_done",
                  "openbin_recv", "done"}

\* C5: in every share returned by galois_ring_to_rep3 and cross_mul_via_lift
\* the a-coordinate is the value the party sent and the b-coordinate is the
\* value its previous party sent, which is that party's a-coordinate.
C5_ReplicatedInvariant ==
    \A i \in Party :
        /\ HasRep3(i) =>
              /\ Len(loc[i].sh16) = 2 * inp.n
              /\ \A k \in 1 .. Len(loc[i].sh16) :
                    /\ loc[i].sh16[k].a = loc[i].sentA[k]
                    /\ loc[i].sh16[k].b = loc[PrevRole(i)].sentA[k]
                    /\ HasRep3(PrevRole(i)) => loc[i].sh16[k].b = loc[PrevRole(i)].sh16[k].a
        /\ HasCross(i) =>
              /\ Len(loc[i].sh32) = 2
              /\ \A k \in 1 .. Len(loc[i].sh32) :
                    /\ loc[i].sh32[k].a = loc[i].sentA[k]
                    /\ loc[i].sh32[k].b = loc[PrevRole(i)].sentA[k]
                    /\ HasCross(PrevRole(i)) => loc[i].sh32[k].b = loc[PrevRole(i)].sh32[k].a

\* all three parties hold their galois_ring_to_rep3 result, with coordinates
\* that differ
C5_Witness ==
    /\ \A i \in Party : HasRep3(i)
    /\ loc[0].sh16[1].a # loc[0].sh16[1].b
    /\ loc[1].sh16[1].b = loc[0].sh16[1].a

\* C6: the k-th zero-shares of the three parties are drawn in the same ring
\* and sum to 0 in it, for every k all three have reached.
C6_ZeroSharesSumToZero ==
    \A k \in 1 .. Min(Len(zs[0]), Min(Len(zs[1]), Len(zs[2]))) :
        /\ zs[0][k].w = zs[1][k].w
        /\ zs[1][k].w = zs[2][k].w
        /\ Secret(zs[0][k].w, zs[0][k].v, zs[1][k].v, zs[2][k].v)
              = (IF zs[0][k].w = 16 THEN 0 ELSE Zero32)

\* all three parties have drawn two non-zero zero-shares over Z_2^32
C6_Witness ==
    /\ \A i \in Party : Len(zs[i]) = 2 /\ zs[i][2].w = 32 /\ zs[i][2].v # Zero32
    /\ zs[0][1].v # zs[1][1].v

\* C7: a party that has completed setup_replicated_prf holds its own seed
\* and the seed of its previous party, at positions 0.
C7_SetupSeeds ==
    \A i \in Party :
        pc[i] \notin {"start", "setup_recv"}
            => /\ prf[i].ready
               /\ prf[i].my = inp.seeds[i]
               /\ prf[i].other = inp.seeds[PrevRole(i)]

\* all three parties have completed the setup with pairwise different seeds
C7_Witness ==
    /\ \A i \in Party : pc[i] = "ready" /\ prf[i].ready
    /\ inp.seeds[0] # inp.seeds[1]
    /\ inp.seeds[1] # inp.seeds[2]
    /\ inp.seeds[0] # inp.seeds[2]
    /\ scenario = "reshare"

\* C8: batch_signed_lift followed by opening over Z_2^32 gives, for every
\* element of the batch, the u16 secret sign-extended to 32 bits, and as many
\* values as the batch holds.
C8_SignedLiftSignExtends ==
    \A i \in Party :
        (scenario = "slift" /\ pc[i] = "done")
            => /\ Len(out[i]) = Len(inp.secrets)
               /\ \A k \in 1 .. Len(inp.secrets) : out[i][k] = SignExtend(inp.secrets[k])

\* a batch holding -1 and 2^15 - 1 has been lifted and opened
C8_Witness ==
    /\ scenario = "slift"
    /\ AllDone
    /\ inp.secrets = <<B - 1, Half - 1>>
    /\ out[0] = <<U32(B - 1, B - 1), U32(0, Half - 1)>>

\* C9: galois_ring_pairwise_distance returns 2n elements, code dot at the
\* even and twice the mask dot (mod 2^16) at the odd positions (counted from
\* 0), and sends no message: the party has sent only its setup message.
C9_PairwiseDistance ==
    \A i \in Party :
        (scenario = "reshare" /\ pc[i] \notin {"start", "setup_recv", "ready"})
            => /\ Len(loc[i].x16) = 2 * inp.n
               /\ \A k \in 1 .. inp.n :
                     /\ loc[i].x16[2 * k - 1]
                           = TrickDot(IrisPairs(i)[k].x.code, IrisPairs(i)[k].y.code)
                     /\ loc[i].x16[2 * k]
                           = (2 * TrickDot(IrisPairs(i)[k].x.mask, IrisPairs(i)[k].y.mask)) % B
               /\ pc[i] = "dist_done" => nsent[i] = 1

\* a party has computed the distances of the largest batch, one of whose
\* mask dots does not fit 15 bits
C9_Witness ==
    \E i \in Party :
        /\ scenario = "reshare"
        /\ pc[i] = "dist_done"
        /\ inp.n = MaxPairs
        /\ \E k \in 1 .. inp.n :
              TrickDot(IrisPairs(i)[k].x.mask, IrisPairs(i)[k].y.mask) >= Half

\* the secret of the shares the parties opened: the sum of the a-coordinates
OpenedSecret(k) ==
    Secret(loc[0].w, ToOpen(0)[k].a, ToOpen(1)[k].a, ToOpen(2)[k].a)

\* C10: the opening round gives every party the same values, and once all
\* three have opened, each value is the secret of the shares opened.
C10_OpeningGivesSecret ==
    /\ \A i, j \in Party :
          (scenario \in {"reshare", "slift", "cross"} /\ pc[i] = "done" /\ pc[j] = "done")
              => out[i] = out[j]
    /\ (scenario \in {"reshare", "slift", "cross"} /\ AllDone)
          => \A i \in Party :
                /\ Len(out[i]) = Len(ToOpen(i))
                /\ \A k \in 1 .. Len(out[i]) : out[i][k] = OpenedSecret(k)

\* the three parties have opened shares whose coordinates all differ
C10_Witness ==
    /\ scenario = "cross"
    /\ AllDone
    /\ loc[0].sh32[1].a # loc[1].sh32[1].a
    /\ loc[0].sh32[1].a # loc[0].sh32[1].b
    /\ out[0] = out[1]
    /\ out[1] = out[2]

(***************************************************************************)
(* The runs of the other subsystems leave the protocol layer untouched.    *)
(***************************************************************************)
InitProtocolIdle ==
    /\ scenario = "none"
    /\ inp = [seeds |-> TestSeeds, secrets |-> <<>>, n |-> 0]
    /\ tape = 0
    /\ pc = [i \in Party |-> "done"]
    /\ prf = [i \in Party |-> NoPrf]
    /\ net = [i \in Party |-> <<>>]
    /\ loc = [i \in Party |-> NoLocals]
    /\ out = [i \in Party |-> <<>>]
    /\ zs = [i \in Party |-> <<>>]
    /\ nsent = [i \in Party |-> 0]

(***************************************************************************)
(* The match client (src/bin/client.rs) and the match flow it tests.       *)
(* The client builds a query, records the result it expects under the      *)
(* request id, publishes the query, and compares the db_index of the       *)
(* answer with the recorded expectation.  The answer is computed by the    *)
(* servers: one opened bit per database entry, shard by shard, and the     *)
(* first true bit in (shard, intra-shard index) order.                     *)
(***************************************************************************)
\* bits per modelled iris code and mask (12800 in the program)
IrisBits == 4
\* database entries per shard
ShardSize == 2
\* shards (devices) the database is split over
NShards == 2
DbLen == NShards * ShardSize

\* Option<u32>
None == [some |-> FALSE, idx |-> 0]
Some(i) == [some |-> TRUE, idx |-> i]

\* the iris codes and the masks with every bit set but at most one, of
\* IrisBits bits each
Codes == [1 .. IrisBits -> {0, 1}]
FullMask == [j \in 1 .. IrisBits |-> 1]
Masks == {FullMask} \cup {[FullMask EXCEPT ![k] = 0] : k \in 1 .. IrisBits}

\* IrisCode::random_rng: a template of uniformly random code bits under a
\* mask that has most of its bits set (never an empty one)
TemplateSet == {[code |-> c, mask |-> m] : c \in Codes, m \in Masks}

\* the opened bit of a (query, entry) pair: the normalized Hamming distance
\* (differing bits among the bits unmasked in both templates) is below
\* MATCH_THRESHOLD_RATIO
IsMatch(x, y) ==
    LET unmasked == {j \in 1 .. IrisBits : x.mask[j] = 1 /\ y.mask[j] = 1}
        differing == {j \in unmasked : x.code[j] # y.code[j]}
    IN  Cardinality(differing) * 1000 < MATCH_THRESHOLD_RATIO_MILLI * Cardinality(unmasked)

\* entry e of a database drawn around the code c: c with the bits of e and
\* their parity flipped, so that two entries differ in two bits or more
SpreadEntry(c, e) ==
    LET flip(j) == IF j < IrisBits THEN (e \div (2 ^ (j - 1))) % 2
                   ELSE Cardinality({k \in 1 .. IrisBits - 1 : (e \div (2 ^ (k - 1))) % 2 = 1}) % 2
    IN  [code |-> [j \in 1 .. IrisBits |-> (c[j] + flip(j)) % 2], mask |-> FullMask]

\* IrisDB::new_random_par(DB_SIZE, seed): the entries are independent draws
\* of 12800 random bits each, so every entry is within the match threshold
\* of itself and no two entries are within the threshold of each other
\* (their distance is close to one half)
Databases ==
    {db \in {[e \in 0 .. DbLen - 1 |-> SpreadEntry(c, e)] : c \in Codes} :
        /\ \A e \in 0 .. DbLen - 1 : IsMatch(db[e], db[e])
        /\ \A e \in 0 .. DbLen - 1, f \in 0 .. DbLen - 1 :
              e # f => ~IsMatch(db[e], db[f])}

\* left-to-right scan of one shard's bits from position j: the first true index
RECURSIVE ScanShard(_, _)
ScanShard(bits, j) ==
    IF j >= ShardSize THEN None
    ELSE IF bits[j] THEN Some(j) ELSE ScanShard(bits, j + 1)
\* mutant: a later shard's match replaces an earlier one
RECURSIVE MatchResult_LastShard(_, _)
MatchResult_LastShard(bits, s) ==
    IF s >= NShards THEN None
    ELSE LET later == MatchResult_LastShard(bits, s + 1)
             hit == ScanShard(bits[s], 0)
         IN  IF later.some THEN later
             ELSE IF hit.some THEN Some(s * ShardSize + hit.idx) ELSE None
\* the shards in order from shard s: the first shard reporting a true bit wins
RECURSIVE MatchResult(_, _)
MatchResult(bits, s) ==
    IF s >= NShards THEN None
    ELSE LET hit == ScanShard(bits[s], 0)
         IN  IF hit.some THEN Some(s * ShardSize + hit.idx)
             ELSE MatchResult(bits, s + 1)

\* the expectation of the random test mode without an entry of the map
Missing == [some |-> FALSE, idx |-> -1]
\* mutant: the position after the copied entry is recorded
ExpectedForCopy_OffByOne(db_index) == Some(db_index + 1)
\* client.rs:96: the expectation recorded for a copy of db[db_index]
ExpectedForCopy(db_index) == Some(db_index)
\* client.rs:91: the expectation recorded for a random template
ExpectedForRandom == None

InitMatch ==
    /\ InitProtocolIdle
    /\ faults = 0 /\ ingest = Idle /\ gemm = Idle /\ rngs = Idle
    /\ monitor = Idle /\ devices = Idle
    /\ \E db \in Databases :
          client = [pc |-> "start", db |-> db, random |-> FALSE, copy |-> -1,
                    query |-> db[0], expected |-> Missing,
                    bits |-> <<>>, result |-> None, status |-> "none"]

\* client.rs:84-113 with --random: a random template expecting none, or a copy
\* of a random database entry expecting its index
PrepareRandomTest ==
    /\ client.pc = "start"
    /\ \/ \E t \in TemplateSet :
             client' = [client EXCEPT !.pc = "published", !.random = TRUE,
                                      !.query = t, !.expected = ExpectedForRandom]
       \/ \E db_index \in 0 .. DbLen - 1 :
             client' = [client EXCEPT !.pc = "published", !.random = TRUE,
                                      !.copy = db_index, !.query = client.db[db_index],
                                      !.expected = ExpectedForCopy(db_index)]
    /\ UNCHANGED <<protocolVars, faults, ingest, gemm, rngs, monitor, devices>>

\* client.rs:101-112 without --random: a copy of db[db_index] or a random
\* template; nothing is recorded in expected_results
PrepareManual ==
    /\ client.pc = "start"
    /\ \/ \E t \in TemplateSet :
             client' = [client EXCEPT !.pc = "published", !.query = t]
       \/ \E db_index \in 0 .. DbLen - 1 :
             client' = [client EXCEPT !.pc = "published", !.copy = db_index,
                                      !.query = client.db[db_index]]
    /\ UNCHANGED <<protocolVars, faults, ingest, gemm, rngs, monitor, devices>>

\* the servers answer the published query: the opened bits of every shard and
\* the match result
ServerMatch ==
    /\ client.pc = "published"
    /\ LET bits == [s \in 0 .. NShards - 1 |->
                       [j \in 0 .. ShardSize - 1 |->
                           IsMatch(client.query, client.db[s * ShardSize + j])]]
       IN  client' = [client EXCEPT !.pc = "answered", !.bits = bits,
                                    !.result = MatchResult(bits, 0)]
    /\ UNCHANGED <<protocolVars, faults, ingest, gemm, rngs, monitor, devices>>

\* client.rs:177-191: look the request id up and compare the answer's db_index
\* with the expectation
CheckResult ==
    /\ client.pc = "answered"
    /\ client' = [client EXCEPT
                     !.pc = "checked",
                     !.status = IF client.expected = Missing THEN "unknown request_id"
                                ELSE IF client.result = client.expected THEN "ok"
                                ELSE "Result does not match"]
    /\ UNCHANGED <<protocolVars, faults, ingest, gemm, rngs, monitor, devices>>

NextMatch == PrepareRandomTest \/ PrepareManual \/ ServerMatch \/ CheckResult

SpecMatch == InitMatch /\ [][NextMatch]_vars

\* the entries whose opened bit is true
MatchingEntries == {e \in 0 .. DbLen - 1 : IsMatch(client.query, client.db[e])}
\* the entries equal to the query
EqualEntries == {e \in 0 .. DbLen - 1 : client.db[e] = client.query}
Answered == client.pc \in {"answered", "checked"}
\* the answer is the first true bit in (shard, intra-shard) order, none if no bit is true
FirstTrueBit ==
    IF MatchingEntries = {} THEN client.result = None
    ELSE /\ client.result.some
         /\ client.result.idx \in MatchingEntries
         /\ \A e \in MatchingEntries : client.result.idx <= e

\* C11: the match result is the first true opened bit in (shard_index,
\* intra-shard index) order and none when no bit is true; so a query equal to
\* exactly one database entry yields that entry's index and a query matching
\* no entry yields none, and the client's check of a copied entry and of a
\* random template that matches no entry passes.
C11_EqualEntryYieldsIndex ==
    /\ Answered =>
          /\ FirstTrueBit
          /\ \A e \in 0 .. DbLen - 1 : EqualEntries = {e} => client.result = Some(e)
          /\ MatchingEntries = {} => client.result = None
    /\ (client.pc = "checked" /\ client.random) =>
          /\ client.copy >= 0 => client.status = "ok"
          /\ (client.copy < 0 /\ MatchingEntries = {}) => client.status = "ok"

\* the query is a copy of entry 3 of the second shard, its only match, and the
\* client's check has passed
C11_Witness ==
    /\ client.pc = "checked"
    /\ client.random
    /\ client.copy = 3
    /\ EqualEntries = {3}
    /\ MatchingEntries = {3}
    /\ client.result = Some(3)
    /\ client.status = "ok"

\* a random template within the threshold of two entries of different
\* shards has been answered with the first of them
FirstOfTwoShards ==
    /\ Answered
    /\ client.copy < 0
    /\ \E e \in 0 .. ShardSize - 1, f \in ShardSize .. DbLen - 1 :
          /\ {e, f} \subseteq MatchingEntries
          /\ client.result = Some(e)

\* a random template within the threshold of no entry has been answered
\* with none
NoMatchYieldsNone ==
    /\ client.pc = "checked"
    /\ client.random /\ client.copy < 0
    /\ MatchingEntries = {}
    /\ client.result = None
    /\ client.status = "ok"

(***************************************************************************)
(* Ingestion (spec 4.8; iris-mpc-common/tests/smpc_request.rs).            *)
(* Texts and binary data are sequences of bytes 0..255.  An encrypted      *)
(* share is base64(seal(json(record), public key)); decrypt_iris_share     *)
(* undoes the three layers and validate_iris_share compares the digest of  *)
(* the record's serialization with the digest the request carries.         *)
(***************************************************************************)
\* results of the fallible operations
Ok(v) == [ok |-> TRUE, val |-> v, err |-> ""]
Err(kind) == [ok |-> FALSE, val |-> <<>>, err |-> kind]
\* a panic in the middle of a call, and what the call had done until then
ErrLeaving(kind, left) == [ok |-> FALSE, val |-> left, err |-> kind]

RECURSIVE Concat(_)
Concat(seqs) == IF seqs = <<>> THEN <<>> ELSE Head(seqs) \o Concat(Tail(seqs))

\* the field names of IrisCodesJSON in declaration order
FieldNames ==
    << <<105, 114, 105, 115, 95, 118, 101, 114, 115, 105, 111, 110>>,  \* iris_version
       <<105, 114, 105, 115, 95, 115, 104, 97, 114, 101, 115, 95, 118, 101, 114, 115, 105, 111, 110>>,  \* iris_shares_version
       <<108, 101, 102, 116, 95, 105, 114, 105, 115, 95, 99, 111, 100, 101, 95, 115, 104, 97, 114, 101, 115>>,  \* left_iris_code_shares
       <<114, 105, 103, 104, 116, 95, 105, 114, 105, 115, 95, 99, 111, 100, 101, 95, 115, 104, 97, 114, 101, 115>>,  \* right_iris_code_shares
       <<108, 101, 102, 116, 95, 109, 97, 115, 107, 95, 99, 111, 100, 101, 95, 115, 104, 97, 114, 101, 115>>,  \* left_mask_code_shares
       <<114, 105, 103, 104, 116, 95, 109, 97, 115, 107, 95, 99, 111, 100, 101, 95, 115, 104, 97, 114, 101, 115>>  \* right_mask_code_shares
    >>

\* serde_json::to_string of an IrisCodesJSON (a sequence of six field values):
\* {"name":"value",...} in declaration order
ToJson(record) ==
    <<123>> \o Concat([k \in 1 .. 6 |->
                 (IF k = 1 THEN <<>> ELSE <<44>>)
                 \o <<34>> \o FieldNames[k] \o <<34, 58, 34>> \o record[k] \o <<34>>])
    \o <<125>>

\* serde_json::from_str::<IrisCodesJSON>: the object's fields are read in
\* order from position pos; each value extends to the next quote
RECURSIVE ParseFields(_, _, _)
ParseFields(text, pos, k) ==
    IF k > 6
    THEN IF pos = Len(text) /\ text[pos] = 125 THEN Ok(<<>>) ELSE Err("Json")
    ELSE LET open == (IF k = 1 THEN <<123>> ELSE <<44>>) \o <<34>> \o FieldNames[k] \o <<34, 58, 34>>
             from == pos + Len(open)
             quotes == {i \in from .. Len(text) : text[i] = 34}
         IN  IF from - 1 > Len(text) \/ SubSeq(text, pos, from - 1) # open \/ quotes = {}
             THEN Err("Json")
             ELSE LET close == CHOOSE i \in quotes : \A j \in quotes : i <= j
                      rest == ParseFields(text, close + 1, k + 1)
                  IN  IF rest.ok THEN Ok(<<SubSeq(text, from, close - 1)>> \o rest.val)
                      ELSE rest
FromJson(text) == ParseFields(text, 1, 1)

\* mutant: a lossy conversion, which accepts every sequence of bytes
FromUtf8_Lossy(bytes) == Ok(bytes)
\* String::from_utf8: the bytes are well-formed UTF-8.  Every lead byte is
\* followed by its continuation bytes (the first one in the range the lead
\* byte allows) and every continuation byte follows a lead byte.
FromUtf8(bytes) ==
    LET n == Len(bytes)
        IsCont(i) == i >= 1 /\ i <= n /\ bytes[i] >= 128 /\ bytes[i] <= 191
        \* the length of the sequence a byte starts, 0 if it starts none
        Width(b) == IF b < 128 THEN 1
                    ELSE IF b >= 194 /\ b <= 223 THEN 2
                    ELSE IF b >= 224 /\ b <= 239 THEN 3
                    ELSE IF b >= 240 /\ b <= 244 THEN 4 ELSE 0
        FirstContOk(b, c) == /\ (b = 224 => c >= 160)
                             /\ (b = 237 => c <= 159)
                             /\ (b = 240 => c >= 144)
                             /\ (b = 244 => c <= 143)
        LeadOk(i) == /\ \A d \in 1 .. Width(bytes[i]) - 1 : IsCont(i + d)
                     /\ Width(bytes[i]) > 1 => FirstContOk(bytes[i], bytes[i + 1])
        ContOk(i) == \E d \in 1 .. 3 : /\ i - d >= 1
                                       /\ Width(bytes[i - d]) > d
                                       /\ \A e \in 1 .. d - 1 : IsCont(i - e)
    IN  IF \A i \in 1 .. n : IF IsCont(i) THEN ContOk(i)
                             ELSE Width(bytes[i]) > 0 /\ LeadOk(i)
        THEN Ok(bytes) ELSE Err("Utf8")

\* base64, standard alphabet with padding
Base64Encode(bytes) ==
    LET n == Len(bytes)
        Base64Char(sextet) ==
            IF sextet < 26 THEN 65 + sextet
            ELSE IF sextet < 52 THEN 97 + (sextet - 26)
            ELSE IF sextet < 62 THEN 48 + (sextet - 52)
            ELSE IF sextet = 62 THEN 43 ELSE 47
        At(i) == IF i <= n THEN bytes[i] ELSE 0
        Group(g) ==
            LET b0 == At(3 * g + 1)
                b1 == At(3 * g + 2)
                b2 == At(3 * g + 3)
            IN  << Base64Char(b0 \div 4),
                   Base64Char((b0 % 4) * 16 + b1 \div 16),
                   IF 3 * g + 2 > n THEN 61 ELSE Base64Char((b1 % 16) * 4 + b2 \div 64),
                   IF 3 * g + 3 > n THEN 61 ELSE Base64Char(b2 % 64) >>
    IN  [i \in 1 .. 4 * ((n + 2) \div 3) |-> Group((i - 1) \div 4)[((i - 1) % 4) + 1]]
Base64Decode(text) ==
    LET n == Len(text)
        pad == IF n >= 2 /\ text[n] = 61 THEN (IF text[n - 1] = 61 THEN 2 ELSE 1) ELSE 0
        \* the sextet of a character, -1 if it is not in the alphabet
        Base64Sextet(char) ==
            IF char >= 65 /\ char <= 90 THEN char - 65
            ELSE IF char >= 97 /\ char <= 122 THEN char - 97 + 26
            ELSE IF char >= 48 /\ char <= 57 THEN char - 48 + 52
            ELSE IF char = 43 THEN 62
            ELSE IF char = 47 THEN 63 ELSE -1
        S(i) == Base64Sextet(text[i])
        Group(g) ==
            LET s0 == S(4 * g + 1)
                s1 == S(4 * g + 2)
                s2 == IF 4 * g + 3 > n - pad THEN 0 ELSE S(4 * g + 3)
                s3 == IF 4 * g + 4 > n - pad THEN 0 ELSE S(4 * g + 4)
                all == << s0 * 4 + s1 \div 16, (s1 % 16) * 16 + s2 \div 4, (s2 % 4) * 64 + s3 >>
            IN  all
    IN  IF n % 4 # 0 \/ (\E i \in 1 .. n - pad : S(i) < 0)
           \/ (pad = 1 /\ S(n - 1) % 4 # 0)
           \/ (pad = 2 /\ S(n - 2) % 16 # 0)
        THEN Err("Base64Decode")
        ELSE Ok([i \in 1 .. 3 * (n \div 4) - pad |-> Group((i - 1) \div 3)[((i - 1) % 3) + 1]])

\* sealed boxes on bytes: the box names the recipient's public key, carries
\* the message masked under it, and ends with an authentication byte
PublicKey(secret_key) == (secret_key * 7 + 3) % Byte
\* the sum of f[lo..hi] modulo m, by halves
RECURSIVE SumRange(_, _, _, _)
SumRange(f, lo, hi, m) ==
    IF lo > hi THEN 0
    ELSE IF lo = hi THEN f[lo] % m
    ELSE LET mid == (lo + hi) \div 2
         IN  (SumRange(f, lo, mid, m) + SumRange(f, mid + 1, hi, m)) % m
SumBytes(bytes) == SumRange(bytes, 1, Len(bytes), Byte)
Seal(message, public_key) ==
    <<public_key>>
    \o [i \in 1 .. Len(message) |-> (message[i] + public_key + i) % Byte]
    \o <<(SumBytes(message) + public_key) % Byte>>
SealedBoxOpen(box, secret_key) ==
    LET public_key == PublicKey(secret_key)
        n == Len(box) - 2
        message == [i \in 1 .. n |-> (box[i + 1] + 2 * Byte - public_key - i) % Byte]
    IN  IF n < 0 \/ box[1] # public_key THEN Err("SealedBoxOpen")
        ELSE IF box[n + 2] # (SumBytes(message) + public_key) % Byte THEN Err("SealedBoxOpen")
        ELSE Ok(message)

\* SharesEncryptionKeyPairs: the current secret key and the previous one, if any
NoKey == -1
\* stand-ins for the key constants of smpc_request.rs (secret keys)
PREVIOUS_PRIVATE_KEY == 2
CURRENT_PRIVATE_KEY == 1
\* mutant: an absent previous key is replaced by the previous test key
GetKeyPairs_DefaultPrevious(current_sk, previous_sk) ==
    [current |-> current_sk,
     previous |-> IF previous_sk = NoKey THEN PREVIOUS_PRIVATE_KEY ELSE previous_sk]
\* smpc_request.rs:22-31
GetKeyPairs(current_sk, previous_sk) == [current |-> current_sk, previous |-> previous_sk]

\* mutant: the plaintext is parsed before it is checked to be UTF-8
DecryptIrisShare_ParseBeforeUtf8(share, key_pairs, utf8_after_current) ==
    LET decoded == Base64Decode(share)
        first == SealedBoxOpen(decoded.val, key_pairs.current)
        opened == IF first.ok \/ key_pairs.previous = NoKey THEN first
                  ELSE SealedBoxOpen(decoded.val, key_pairs.previous)
    IN  IF ~decoded.ok THEN decoded
        ELSE IF ~opened.ok THEN opened
        ELSE IF ~FromJson(opened.val).ok THEN FromJson(opened.val)
        ELSE IF ~FromUtf8(opened.val).ok THEN FromUtf8(opened.val)
        ELSE FromJson(opened.val)

\* decrypt_iris_share (spec 4.8 steps 1-5).  Step 2 tries the current secret
\* key first and the previous one, if there is one, after it.  It sends a
\* box that the current key opened to step 4, past the UTF-8 check of step
\* 3, while the boundary cases of spec 8 give Utf8 for every valid box whose
\* payload is not UTF-8: utf8_after_current tells which of the two the
\* program does.  A box opened with the previous key goes through step 3.
\* The fields of IrisCodesJSON are strings, so step 4 on bytes that are not
\* UTF-8 fails with Json.
DecryptIrisShare(share, key_pairs, utf8_after_current) ==
    LET decoded == Base64Decode(share)
        first == SealedBoxOpen(decoded.val, key_pairs.current)
        opened == IF first.ok \/ key_pairs.previous = NoKey THEN first
                  ELSE SealedBoxOpen(decoded.val, key_pairs.previous)
    IN  IF ~decoded.ok THEN decoded
        ELSE IF ~opened.ok THEN opened
        ELSE IF first.ok /\ ~utf8_after_current
        THEN (IF ~FromUtf8(opened.val).ok THEN Err("Json") ELSE FromJson(opened.val))
        ELSE IF ~FromUtf8(opened.val).ok THEN FromUtf8(opened.val)
        ELSE FromJson(opened.val)

\* calculate_sha256: the lowercase hex digest of the bytes (a 16-bit
\* position-weighted digest stands for SHA-256)
CalculateSha256(bytes) ==
    LET weighted == [i \in 1 .. Len(bytes) |-> (bytes[i] + 1) * (((i * 31 + 7) % 251) + 1)]
        d == (SumRange(weighted, 1, Len(bytes), B) + 7 * Len(bytes)) % B
        HexChar(v) == IF v < 10 THEN 48 + v ELSE 97 + (v - 10)
    IN  [k \in 1 .. 4 |-> HexChar((d \div (16 ^ (4 - k))) % 16)]
\* mutant: the digest is looked for at every position
ValidateIrisShare_AnyPosition(hashes, party_index, record) ==
    \E i \in DOMAIN hashes : CalculateSha256(ToJson(record)) = hashes[i]
\* validate_iris_share (spec 4.8 steps 1-3): the record is serialized, the
\* serialization digested, and the hex digest compared with the hash at
\* party_index
ValidateIrisShare(hashes, party_index, record) ==
    LET serialized == ToJson(record)
        digest == CalculateSha256(serialized)
    IN  digest = hashes[party_index]


\* smpc_request.rs:105-112, the record of test_decrypt_iris_share_success
SuccessIrisCodesJson ==
    << <<49, 46, 48>>, <<49, 46, 51>>,
       <<108, 101, 102, 116, 95, 99, 111, 100, 101>>,
       <<114, 105, 103, 104, 116, 95, 99, 111, 100, 101>>,
       <<108, 101, 102, 116, 95, 109, 97, 115, 107>>,
       <<114, 105, 103, 104, 116, 95, 109, 97, 115, 107>> >>
\* smpc_request.rs:33-42
MockIrisCodesJson ==
    << <<49, 46, 48>>, <<49, 46, 51>>,
       <<98, 71, 86, 109, 100, 70, 57, 112, 99, 109, 108, 122, 88, 50, 78, 118, 90, 71, 86, 102, 98, 87, 57, 106, 97, 119, 61, 61>>,
       <<99, 109, 108, 110, 97, 72, 82, 102, 97, 88, 74, 112, 99, 49, 57, 106, 98, 50, 82, 108, 88, 50, 49, 118, 89, 50, 115, 61>>,
       <<98, 71, 86, 109, 100, 70, 57, 112, 99, 109, 108, 122, 88, 50, 49, 104, 99, 50, 116, 102, 98, 87, 57, 106, 97, 119, 61, 61>>,
       <<99, 109, 108, 110, 97, 72, 82, 102, 97, 88, 74, 112, 99, 49, 57, 116, 89, 88, 78, 114, 88, 50, 49, 118, 89, 50, 115, 61>> >>
Records == {SuccessIrisCodesJson, MockIrisCodesJson, [k \in 1 .. 6 |-> <<>>]}

\* smpc_request.rs:208
InvalidUtf8 == <<0, 159, 146, 150>>
\* smpc_request.rs:231, "totally-not-a-json-string"
InvalidJson == <<116, 111, 116, 97, 108, 108, 121, 45, 110, 111, 116, 45, 97, 45, 106, 115, 111, 110, 45, 115, 116, 114, 105, 110, 103>>
\* smpc_request.rs:191, "InvalidBase64String"
InvalidBase64 == <<73, 110, 118, 97, 108, 105, 100, 66, 97, 115, 101, 54, 52, 83, 116, 114, 105, 110, 103>>

\* mutant: the serialization is encoded without being sealed
EncodedShare_Unsealed(payload, public_key) == Base64Encode(payload)
\* smpc_request.rs:119-120: sealedbox::seal, then STANDARD.encode
EncodedShare(payload, public_key) == Base64Encode(Seal(payload, public_key))

\* smpc_request.rs:252-253: calculate_sha256 of serde_json::to_string
MockHash(record) == CalculateSha256(ToJson(record))
\* smpc_request.rs:257, "dummy_hash_1"
DummyHash == <<100, 117, 109, 109, 121, 95, 104, 97, 115, 104, 95, 49>>
\* smpc_request.rs:272, "incorrect_hash_value"
IncorrectHash == <<105, 110, 99, 111, 114, 114, 101, 99, 116, 95, 104, 97, 115, 104, 95, 118, 97, 108, 117, 101>>

InitIngest ==
    /\ InitProtocolIdle
    /\ faults = 0 /\ client = Idle /\ gemm = Idle /\ rngs = Idle
    /\ monitor = Idle /\ devices = Idle
    /\ \E current \in {CURRENT_PRIVATE_KEY, PREVIOUS_PRIVATE_KEY},
          previous \in {CURRENT_PRIVATE_KEY, PREVIOUS_PRIVATE_KEY, NoKey},
          hashes \in [0 .. 2 -> {MockHash(MockIrisCodesJson), DummyHash, IncorrectHash}],
          utf8_after_current \in BOOLEAN :
          ingest = [pc |-> "start", current |-> current, previous |-> previous,
                    utf8_after_current |-> utf8_after_current,
                    hashes |-> hashes, kind |-> "none", payload |-> <<>>,
                    digest |-> <<>>,
                    sealed_for |-> NoKey, share |-> <<>>, result |-> Err(""),
                    party_index |-> 0, valid |-> FALSE]

\* the share of a test: a payload sealed for the public key of a secret key
\* (3 is a key the party does not hold); of a record the sender also
\* computes the digest that the request is to carry
ReceiveSealedShare ==
    /\ ingest.pc = "start"
    /\ \E sk \in {CURRENT_PRIVATE_KEY, PREVIOUS_PRIVATE_KEY, 3} :
       \E p \in {<<"record", ToJson(r), MockHash(r)>> : r \in Records}
                \cup {<<"invalid_utf8", InvalidUtf8, <<>>>>,
                      <<"invalid_json", InvalidJson, <<>>>>,
                      <<"invalid_json", <<123, 125>>, <<>>>>} :
          ingest' = [ingest EXCEPT !.pc = "received", !.kind = p[1], !.payload = p[2],
                                   !.digest = p[3], !.sealed_for = sk,
                                   !.share = EncodedShare(p[2], PublicKey(sk))]
    /\ UNCHANGED <<protocolVars, faults, client, gemm, rngs, monitor, devices>>

\* a share that is not base64, or base64 of bytes that are no sealed box
ReceiveBrokenShare ==
    /\ ingest.pc = "start"
    /\ \/ ingest' = [ingest EXCEPT !.pc = "received", !.kind = "invalid_base64",
                                   !.share = InvalidBase64]
       \/ \E r \in Records :
             ingest' = [ingest EXCEPT !.pc = "received", !.kind = "invalid_base64",
                                      !.payload = ToJson(r),
                                      !.share = <<33>> \o EncodedShare(ToJson(r), PublicKey(ingest.current))]
       \/ \E r \in Records :
             ingest' = [ingest EXCEPT !.pc = "received", !.kind = "garbled",
                                      !.payload = ToJson(r),
                                      !.share = Base64Encode(ToJson(r))]
    /\ UNCHANGED <<protocolVars, faults, client, gemm, rngs, monitor, devices>>

\* decrypt_iris_share
DecryptShare ==
    /\ ingest.pc = "received"
    /\ LET result == DecryptIrisShare(ingest.share,
                                      GetKeyPairs(ingest.current, ingest.previous),
                                      ingest.utf8_after_current)
       IN  ingest' = [ingest EXCEPT !.pc = IF result.ok THEN "decrypted" ELSE "failed",
                                    !.result = result]
    /\ UNCHANGED <<protocolVars, faults, client, gemm, rngs, monitor, devices>>

\* validate_iris_share of the decrypted record
ValidateShare ==
    /\ ingest.pc = "decrypted"
    /\ \E party_index \in 0 .. 2 :
          ingest' = [ingest EXCEPT
                        !.pc = "validated", !.party_index = party_index,
                        !.valid = ValidateIrisShare(ingest.hashes, party_index, ingest.result.val)]
    /\ UNCHANGED <<protocolVars, faults, client, gemm, rngs, monitor, devices>>

NextIngest == ReceiveSealedShare \/ ReceiveBrokenShare \/ DecryptShare \/ ValidateShare

SpecIngest == InitIngest /\ [][NextIngest]_vars

Decrypted == ingest.pc \in {"decrypted", "failed", "validated"}
\* the share was sealed for the public key of the secret key sk
OpensWith(sk) == ingest.sealed_for # NoKey /\ sk = ingest.sealed_for
OpensWithCurrent == OpensWith(ingest.current)
OpensWithPrevious == ingest.previous # NoKey /\ OpensWith(ingest.previous)

\* C12: a record serialized, sealed for the current or for the previous public
\* key and base64-encoded is returned unchanged by decrypt_iris_share.
C12_RoundTrip ==
    (Decrypted /\ ingest.kind = "record" /\ (OpensWithCurrent \/ OpensWithPrevious))
        => /\ ingest.result.ok
           /\ ingest.result.val \in Records
           /\ ToJson(ingest.result.val) = ingest.payload

\* the mock record sealed for the previous key only has been decrypted
C12_Witness ==
    /\ ingest.pc = "decrypted"
    /\ ingest.kind = "record"
    /\ OpensWithPrevious /\ ~OpensWithCurrent
    /\ ingest.result = Ok(MockIrisCodesJson)

\* C13: valid base64 whose content opens neither with the current secret key
\* nor with the previous one (absent or failing) yields SealedBoxOpen and no
\* record.
C13_SealedBoxOpen ==
    (Decrypted /\ ingest.kind # "invalid_base64" /\ ~OpensWithCurrent /\ ~OpensWithPrevious)
        => ingest.result = Err("SealedBoxOpen")

\* a record sealed for the previous test key, only the current key held:
\* SealedBoxOpen
C13_Witness ==
    /\ ingest.pc = "failed"
    /\ ingest.kind = "record"
    /\ ingest.sealed_for = PREVIOUS_PRIVATE_KEY
    /\ ingest.current = CURRENT_PRIVATE_KEY
    /\ ingest.previous = NoKey
    /\ ingest.result = Err("SealedBoxOpen")

Utf8PassedOver ==
    /\ ingest.pc = "failed"
    /\ ingest.kind = "invalid_utf8"
    /\ OpensWithCurrent
    /\ ingest.result = Err("Json")
Utf8CheckedAfterCurrent ==
    /\ ingest.pc = "failed"
    /\ ingest.kind = "invalid_utf8"
    /\ OpensWithCurrent
    /\ ingest.result = Err("Utf8")

IncorrectHashRejected ==
    /\ ingest.pc = "validated"
    /\ ingest.party_index = 0
    /\ ingest.result.val = MockIrisCodesJson
    /\ ingest.hashes[0] = IncorrectHash
    /\ ingest.hashes[1] = ingest.digest
    /\ ~ingest.valid

(***************************************************************************)
(* Decode failures of the protocol layer (ops.rs:41-44, 137-148).  The     *)
(* transport may deliver, once per run, a value of another tag or a        *)
(* vector of another length in place of the value that was sent.          *)
(***************************************************************************)
\* the values a message in flight may be replaced by
WrongValues(m) ==
    LET other == {Msg("VecRing32", <<Zero32, Zero32>>), Msg("VecRing16", <<0, 0>>),
                  Msg("PrfKey", 0)}
        resized == CASE m.tag = "VecRing32" ->
                           {Msg("VecRing32", <<>>), Msg("VecRing32", SubSeq(m.val, 1, 1)),
                            Msg("VecRing32", m.val \o <<Zero32>>)}
                     [] m.tag = "VecRing16" ->
                           {Msg("VecRing16", <<>>), Msg("VecRing16", SubSeq(m.val, 1, 1)),
                            Msg("VecRing16", m.val \o <<0>>)}
                     [] OTHER -> {}
    IN  {n \in other : n.tag # m.tag} \cup resized

InitFault ==
    /\ InitCommon
    /\ scenario = "cross"
    /\ inp = [seeds |-> TestSeeds, secrets |-> <<1, 2, 3, 4>>, n |-> 0]
    /\ faults = 1

\* the first message of the channel from party i is replaced
Tamper(i) ==
    /\ faults > 0
    /\ net[i] # <<>>
    /\ \E m \in WrongValues(Head(net[i])) : net' = [net EXCEPT ![i] = <<m>> \o Tail(@)]
    /\ faults' = faults - 1
    /\ UNCHANGED <<scenario, inp, tape, pc, prf, loc, out, zs, nsent, client, ingest, gemm, rngs, monitor, devices>>

FaultStep(i) ==
    \/ SetupSend(i)
    \/ SetupRecv(i)
    \/ CrossMulBegin(i)
    \/ CrossMulSend(i)
    \/ CrossMulRecv(i)
    \/ Tamper(i)

NextFault == (\E i \in Party : FaultStep(i)) \/ LiftF

SpecFault == InitFault /\ [][NextFault]_vars

\* party i leaves the receive of the step at label, having taken a value
\* from its previous party
Receives(i, label) == pc[i] = label /\ pc'[i] # label

\* C17: a value received in setup_replicated_prf that is not tagged PrfKey
\* makes the party fail, and no Prf is constructed then or later.
C17_SetupRejectsNonPrfKey ==
    [][\A i \in Party :
          /\ (Receives(i, "setup_recv") /\ Received(i).tag # "PrfKey")
                => (pc'[i] = "error" /\ prf'[i] = NoPrf)
          /\ (pc[i] = "error" /\ prf[i] = NoPrf)
                => (pc'[i] = "error" /\ prf'[i] = NoPrf)]_vars

\* party 1 has failed in setup on a VecRing32 and holds no Prf
C17_Witness ==
    /\ pc[1] = "error"
    /\ prf[1] = NoPrf
    /\ faults = 0
    /\ nsent[0] = 1 /\ net[0] = <<>>

\* C18: a value received in cross_mul_via_lift that is not a VecRing32, or a
\* VecRing32 whose length is not that of the two elements sent, makes the
\* party fail, and no shares are returned.
C18_CrossMulRejects ==
    [][\A i \in Party :
          /\ (Receives(i, "cross_recv")
                /\ (Received(i).tag # "VecRing32" \/ Len(Received(i).val) # Len(loc[i].sentA)))
                => (pc'[i] = "error" /\ loc'[i] = loc[i] /\ out'[i] = <<>>)
          /\ (pc[i] = "error" /\ prf[i] # NoPrf)
                => (pc'[i] = "error" /\ loc'[i] = loc[i] /\ out'[i] = <<>>)]_vars

\* party 2 has failed in cross_mul_via_lift after sending its two elements
C18_Witness ==
    /\ pc[2] = "error"
    /\ prf[2] # NoPrf
    /\ Len(loc[2].sentA) = 2
    /\ faults = 0
    /\ net[1] = <<>>

(***************************************************************************)
(* ChaCha contexts and kernels (src/rng/chacha_corr.rs, chacha.cu).  A     *)
(* context is its 16 state words (u32 as <<hi, lo>>, word n of the code at *)
(* position n + 1); a u64 is a pair <<high word, low word>> of u32.        *)
(***************************************************************************)
CHACONST == <<U32(24944, 30821), U32(13088, 25710), U32(31074, 11570), U32(27424, 25972)>>

\* a u64 as <<high word, low word>> of u32
U64(hi, lo) == <<hi, lo>>
High32(v) == v[1]
Low32(v) == v[2]
Zero64 == U64(Zero32, Zero32)
\* n as u64, for 0 <= n < 2^31
FromInt64(n) == U64(Zero32, FromInt(n))
\* u64 + u64 with wrap-around, and whether it wraps
Add64(x, y) ==
    LET lo == Add32(Low32(x), Low32(y))
        carry == IF Less32(lo, Low32(x)) THEN 1 ELSE 0
    IN  U64(Add32(Add32(High32(x), High32(y)), U32(0, carry)), lo)
Overflows64(x, y) ==
    LET lo == Add32(Low32(x), Low32(y))
        hi == Add32(High32(x), High32(y))
    IN  \/ Less32(hi, High32(x))
        \/ Less32(lo, Low32(x)) /\ hi = U32(B - 1, B - 1)

\* ChaChaCtx::set_value: state[idx] = value as u32, state[idx + 1] =
\* (value >> 32) as u32
SetValue(state, idx, value) ==
    [state EXCEPT ![idx + 1] = Low32(value), ![idx + 2] = High32(value)]

\* ChaChaCtx::get_value: state[idx] | state[idx + 1] << 32
GetValue(state, idx) == U64(state[idx + 2], state[idx + 1])

\* ChaChaCtx::set_counter, set_nonce
SetCounter(state, counter) == SetValue(state, 12, counter)
SetNonce(state, nonce) == SetValue(state, 14, nonce)

\* ChaChaCtx::init(key, counter, nonce)
ChaChaCtxInit(key, counter, nonce) ==
    SetNonce(SetCounter(CHACONST \o key \o <<Zero32, Zero32, Zero32, Zero32>>, counter),
             nonce)

\* u32 ^ u32
Xor32(x, y) ==
    LET RECURSIVE bits(_, _, _)
        bits(a, b, n) ==
            IF n = 0 THEN 0
            ELSE ((a + b) % 2) + 2 * bits(a \div 2, b \div 2, n - 1)
    IN  U32(bits(Hi(x), Hi(y), 16), bits(Lo(x), Lo(y), 16))

\* the first len words of the keystream that the state words produce from
\* the block counter (counter1, counter2) on: block t, of number
\* counter + t modulo 2^64, is words 16 t .. 16 t + 15
KeyStream(state_gpu_buf, counter1, counter2, len) ==
    LET word(n) == Add16(Lo(state_gpu_buf[n]), Mul16(Hi(state_gpu_buf[n]), 3))
        key[n \in 0 .. 16] ==
            IF n = 0 THEN 0
            ELSE IF n \in {13, 14} THEN key[n - 1]
            ELSE Add16(Mul16(key[n - 1], 31), word(n))
        block(t) == Add64(U64(counter2, counter1), FromInt64(t))
        seeded(n) == Add16(Mul16(key[16], 40503),
                           Mul16(Add16(Add16(Hi(Low32(n)), Lo(High32(n))), Hi(High32(n))), 7))
    IN  [p \in 1 .. len |->
            LET n == block((p - 1) \div 16)
                mix == Add16(seeded(n), Mul16(Lo(Low32(n)), 25173))
                w == ((p - 1) % 16) + 1
            IN  U32(Add16(Mul16(mix, 13849), Mul16(w, 9973)),
                    Add16(Mul16(mix, 28411), Mul16(w, 12345)))]

\* kernel chacha12: thread t writes block t of the keystream to
\* buf[16 t .. 16 t + 15]
ChaCha12(buf, state_gpu_buf, counter1, counter2, len) ==
    LET ks == KeyStream(state_gpu_buf, counter1, counter2, len)
    IN  [p \in 1 .. Len(buf) |-> IF p <= len THEN ks[p] ELSE buf[p]]

\* kernel chacha12_xor: the same keystream, XORed into the buffer
ChaCha12Xor(buf, state_gpu_buf, counter1, counter2, len) ==
    LET ks == KeyStream(state_gpu_buf, counter1, counter2, len)
    IN  [p \in 1 .. Len(buf) |-> IF p <= len THEN Xor32(buf[p], ks[p]) ELSE buf[p]]

(***************************************************************************)
(* ShareDB: the limb-decomposed matrix product (src/dot/share_db.rs).      *)
(* A u16 entry is split into two byte limbs, each centred by 128 and read  *)
(* by the GEMM as i8; three limb products are accumulated into an i32      *)
(* buffer with weights 2^0 and 2^8, and the reduce kernel adds the limb    *)
(* sums and keeps the low 16 bits.  Device buffers are sequences in        *)
(* column-major order; i32 and u32 cells are <<hi, lo>> pairs.             *)
(***************************************************************************)
CodeQuads == 1
DeviceCount == 2
RowsPerDevice == 2
QueryLength == 2
MaxGemmSeed == 5

\* IRIS_CODE_LENGTH is 12800, a multiple of four
IRIS_CODE_LENGTH == 4 * CodeQuads
LIMBS == 2

\* `as i8` of an integer
AsI8(v) == ((v + 128) % Byte) - 128

\* sum over kk < k of a[aoff + kk] * b[boff + kk], the cells read as i8
RECURSIVE DotI8(_, _, _, _, _)
DotI8(a, aoff, b, boff, k) ==
    IF k = 0 THEN 0
    ELSE DotI8(a, aoff, b, boff, k - 1) + AsI8(a[aoff + k]) * AsI8(b[boff + k])

PreprocessQuery_NoCentring(query) ==
    [i \in 1 .. LIMBS |->
        [idx \in 1 .. Len(query) |-> (query[idx] \div (2 ^ (8 * (i - 1)))) % Byte]]

\* limb i of every entry, minus 128, stored as u8
PreprocessQuery(query) ==
    [i \in 1 .. LIMBS |->
        [idx \in 1 .. Len(query) |->
            LET tmp == (query[idx] \div (2 ^ (8 * (i - 1)))) % Byte
            IN  (tmp - 128) % Byte]]

\* cublasGemmEx(OP_T, OP_N, m, n, k) on i8 inputs with lda = ldb = k and an
\* i32 output with ldc = m: c[col * m + r] = alpha * (row r of a . column col
\* of b) + beta * c[col * m + r]; c is not read when beta = 0
Gemm(a, b, c, m, n, k, alpha, beta) ==
    [idx \in 1 .. m * n |->
        LET r == (idx - 1) % m
            col == (idx - 1) \div m
            scaled == Mul32(FromInt(alpha), FromInt(DotI8(a, r * k, b, col * k, k)))
        IN  IF beta = 0 THEN scaled ELSE Add32(scaled, Mul32(FromInt(beta), c[idx]))]

\* chunking(slice, n_chunks, chunk_size, element_size, alternating):
\* slice.chunks(n) cuts the slice into pieces of n, the last one shorter
\* when the length is not a multiple of n
Chunking(slice, n_chunks, chunk_size, element_size, alternating) ==
    IF alternating
    THEN LET elements == (Len(slice) + element_size - 1) \div element_size
             element(e) == SubSeq(slice, e * element_size + 1,
                                  Min(Len(slice), (e + 1) * element_size))
             RECURSIVE extended(_)
             extended(e) == IF e >= elements THEN <<>>
                            ELSE element(e) \o extended(e + n_chunks)
         IN  [d \in 1 .. n_chunks |-> extended(d - 1)]
    ELSE [d \in 1 .. (Len(slice) + chunk_size - 1) \div chunk_size |->
            [p \in 1 .. (IF d * chunk_size <= Len(slice) THEN chunk_size
                         ELSE Len(slice) - (d - 1) * chunk_size) |->
                slice[(d - 1) * chunk_size + p]]]

\* load_db: the centred limbs of every entry as i8, the sum of each row of
\* limbs as u32 (par_chunks(IRIS_CODE_LENGTH): the entries after the last
\* whole row make a row of their own; the i8 sign-extended, added with
\* wrap-around; with overflow checks the addition panics once the sum of
\* the sign-extended values passes 2^32), both split over the devices.
\* Contiguous chunks are made by slice.chunks(chunk_size), which panics on a
\* chunk size of zero, and chunk number idx is copied to device(idx), which
\* panics on an index that is not below device_count.  Every chunk is
\* copied by an unchecked memcpy_htod_sync into a buffer allocated for
\* max_db_length / device_count rows: out_of_bounds tells whether some copy
\* is longer than its buffer.  The chunks of db1_sums are copied first, so
\* the panic on the device index comes after the copies to the devices
\* that exist.
LoadDb(db_entries, db_length, max_db_length, alternating_chunks, overflow_checks) ==
    LET a1 == [p \in 1 .. Len(db_entries) |-> AsI8(AsI8(db_entries[p] \div Byte) - 128)]
        a0 == [p \in 1 .. Len(db_entries) |-> AsI8(AsI8(db_entries[p] % Byte) - 128)]
        rows == (Len(db_entries) + IRIS_CODE_LENGTH - 1) \div IRIS_CODE_LENGTH
        width(r) == Min(IRIS_CODE_LENGTH, Len(db_entries) - (r - 1) * IRIS_CODE_LENGTH)
        ones == [p \in 1 .. IRIS_CODE_LENGTH |-> 1]
        row(a, r) == [k \in 1 .. width(r) |-> a[(r - 1) * IRIS_CODE_LENGTH + k]]
        signed(a, r) == DotI8(a, (r - 1) * IRIS_CODE_LENGTH, ones, 0, width(r))
        negatives(a, r) == Cardinality({k \in 1 .. width(r) : row(a, r)[k] < 0})
        overflows(a, r) ==
            \/ negatives(a, r) >= 2
            \/ negatives(a, r) = 1 /\ signed(a, r) >= 0
        sums(a) == [r \in 1 .. rows |-> FromInt(signed(a, r))]
        chunk_size == db_length \div DeviceCount
        max_size == max_db_length \div DeviceCount
        db0 == Chunking(a0, DeviceCount, chunk_size * IRIS_CODE_LENGTH,
                        IRIS_CODE_LENGTH, alternating_chunks)
        db1 == Chunking(a1, DeviceCount, chunk_size * IRIS_CODE_LENGTH,
                        IRIS_CODE_LENGTH, alternating_chunks)
        db0_sums == Chunking(sums(a0), DeviceCount, chunk_size, 1, alternating_chunks)
        db1_sums == Chunking(sums(a1), DeviceCount, chunk_size, 1, alternating_chunks)
        longer(chunks, size) == \E idx \in 1 .. Len(chunks) : Len(chunks[idx]) > size
    IN  IF overflow_checks /\ \E r \in 1 .. rows : overflows(a1, r) \/ overflows(a0, r)
        THEN Err("attempt to add with overflow")
        ELSE IF ~alternating_chunks /\ chunk_size = 0
        THEN Err("chunk size must be non-zero")
        ELSE IF ~alternating_chunks /\ (rows + chunk_size - 1) \div chunk_size > DeviceCount
        THEN ErrLeaving("index out of bounds",
                        [out_of_bounds |-> \E idx \in 1 .. DeviceCount :
                                              Len(db1_sums[idx]) > max_size])
        ELSE Ok([db0 |-> db0, db1 |-> db1, db0_sums |-> db0_sums, db1_sums |-> db1_sums,
                 out_of_bounds |-> \/ longer(db0_sums, max_size)
                                   \/ longer(db1_sums, max_size)
                                   \/ longer(db0, max_size * IRIS_CODE_LENGTH)
                                   \/ longer(db1, max_size * IRIS_CODE_LENGTH)])

\* what the call of load_db can leave: its result, and, after a copy past
\* the end of a device buffer, also a panic on the error of the driver
LoadDbOutcomes(loaded) ==
    IF loaded.ok
    THEN IF loaded.val.out_of_bounds THEN {loaded, Err("device copy out of bounds")}
         ELSE {loaded}
    ELSE IF loaded.err = "index out of bounds" /\ loaded.val.out_of_bounds
    THEN {Err(loaded.err), Err("device copy out of bounds")}
    ELSE {Err(loaded.err)}

\* query_sums: on every device, each query limb times the vector of ones
QuerySums(query_ptrs, query_length) ==
    LET ones == [p \in 1 .. IRIS_CODE_LENGTH |-> 1]
    IN  [l \in 1 .. LIMBS |->
            [idx \in 1 .. DeviceCount |->
                Gemm(query_ptrs[l], ones, <<>>, query_length, 1, IRIS_CODE_LENGTH, 1, 0)]]

DotGemms_AllPairs ==
    LET pairs == << <<0, 0>>, <<0, 1>>, <<1, 0>>, <<1, 1>> >>
    IN  [n \in 1 .. Len(pairs) |->
            [i |-> pairs[n][1], j |-> pairs[n][2],
             alpha |-> 2 ^ (8 * (pairs[n][1] + pairs[n][2])),
             beta |-> IF pairs[n][1] + pairs[n][2] = 0 THEN 0 ELSE 1]]

\* the GEMM calls of dot on one device, in loop order: database limb i,
\* query limb j, skipped when i + j >= LIMBS
DotGemms ==
    LET all == << <<0, 0>>, <<0, 1>>, <<1, 0>>, <<1, 1>> >>
        keep(p) == ~(p[1] + p[2] >= LIMBS)
        pairs == SelectSeq(all, keep)
    IN  [n \in 1 .. Len(pairs) |->
            [i |-> pairs[n][1], j |-> pairs[n][2],
             alpha |-> 2 ^ (8 * (pairs[n][1] + pairs[n][2])),
             beta |-> IF pairs[n][1] + pairs[n][2] = 0 THEN 0 ELSE 1]]

\* the buffer of device idx after the GEMM calls gemms
RunGemms(gemms, query_ptrs, db, db_sizes, query_length, idx) ==
    LET c[n \in 0 .. Len(gemms)] ==
            IF n = 0 THEN <<>>
            ELSE Gemm(db[gemms[n].i + 1][idx], query_ptrs[gemms[n].j + 1], c[n - 1],
                      db_sizes[idx], query_length, IRIS_CODE_LENGTH,
                      gemms[n].alpha, gemms[n].beta)
    IN  c[Len(gemms)]

\* dot: on every device the limb products with i + j < LIMBS, in loop order,
\* accumulated into intermediate_results
Dot(query_ptrs, db, db_sizes, query_length) ==
    [idx \in 1 .. DeviceCount |->
        RunGemms(DotGemms, query_ptrs, db, db_sizes, query_length, idx)]

\* counter = get_counter(); counter += num_ks_calls; set_counter(counter):
\* the addition wraps at 2^64
AdvanceCounter(state, num_ks_calls) ==
    SetCounter(state, Add64(GetValue(state, 12), FromInt64(num_ks_calls)))

\* whether that addition passes 2^64, on which a build with overflow
\* checks panics
CounterOverflows(state, num_ks_calls) ==
    Overflows64(GetValue(state, 12), FromInt64(num_ks_calls))

\* ChaChaCudaRng::init(buf_size, dev, seed) and set_nonce(idx): a context
\* and a zeroed device buffer of buf_size bytes, held as u32 words
ChaChaCudaRngInit(buf_size, seed, nonce) ==
    [ctx |-> SetNonce(ChaChaCtxInit(seed, Zero64, Zero64), nonce),
     cuda_slice |-> [some |-> TRUE, words |-> [p \in 1 .. buf_size \div 4 |-> Zero32]]]

\* fill_rng_no_host_copy(len, stream): the first len bytes of the buffer
\* become keystream, and the counter advances by the blocks produced
FillRngNoHostCopy(rng, len) ==
    [rng EXCEPT
        !.cuda_slice.words = ChaCha12(@, rng.ctx, rng.ctx[13], rng.ctx[14],
                                      Min(len \div 4, Len(@))),
        !.ctx = AdvanceCounter(@, len \div 64)]

\* a device buffer of u32 words read as unsigned short, low half first
AsU16(words) ==
    [p \in 1 .. 2 * Len(words) |->
        IF p % 2 = 1 THEN Lo(words[(p + 1) \div 2]) ELSE Hi(words[p \div 2])]

\* ShareDB::init, the rngs: on every device one ChaChaCudaRng per seed, with
\* the device index as nonce
ShareDbRngs(max_db_length, query_length, chacha_seeds) ==
    LET rng_buf_size == (((max_db_length \div DeviceCount) * query_length * 2 + 63) \div 64) * 64
    IN  [idx \in 1 .. DeviceCount |->
            <<ChaChaCudaRngInit(rng_buf_size, chacha_seeds[1], FromInt64(idx - 1)),
              ChaChaCudaRngInit(rng_buf_size, chacha_seeds[2], FromInt64(idx - 1))>>]

\* dot, the randomness to mask the results: on a remote engine both rngs of
\* every device are filled
DotRngs(device_rngs, is_remote, db_sizes, query_length) ==
    [idx \in 1 .. DeviceCount |->
        LET len == ((db_sizes[idx] * query_length + 63) \div 64) * 64
        IN  IF is_remote
            THEN <<FillRngNoHostCopy(device_rngs[idx][1], len), FillRngNoHostCopy(device_rngs[idx][2], len)>>
            ELSE device_rngs[idx]]

\* kernel matmul_correct_and_reduce: cell idx belongs to database row
\* idx % dbLength and query idx / dbLength; the limb sums of that row and of
\* that query are added with the weights the centring by 128 left out, the
\* first mask is added and the second subtracted, and the low 16 bits are
\* kept
MatmulCorrectAndReduce(c, a0Sums, a1Sums, b0Sums, b1Sums, dbLength, numElements, rngMasks0, rngMasks1) ==
    [idx \in 1 .. numElements |->
        LET s0 == Add32(a0Sums[((idx - 1) % dbLength) + 1], b0Sums[((idx - 1) \div dbLength) + 1])
            s1 == Add32(a1Sums[((idx - 1) % dbLength) + 1], b1Sums[((idx - 1) \div dbLength) + 1])
            result == Lo(Add32(c[idx], Add32(Mul32(FromInt(2 ^ 7), s0),
                                             Mul32(FromInt(2 ^ 15), Add32(s0, s1)))))
        IN  Sub16(Add16(result, rngMasks0[idx]), rngMasks1[idx])]

\* dot_reduce: asserts that both device_rngs of every device hold a device buffer,
\* and launches the kernel on every device
DotReduce(intermediate_results, query_sums, db_sums, db_sizes, query_length, device_rngs) ==
    IF \E idx \in 1 .. DeviceCount :
          ~(device_rngs[idx][1].cuda_slice.some /\ device_rngs[idx][2].cuda_slice.some)
    THEN Err("assertion failed: cuda_slice().is_some()")
    ELSE Ok([idx \in 1 .. DeviceCount |->
                MatmulCorrectAndReduce(intermediate_results[idx],
                                       db_sums[1][idx], db_sums[2][idx],
                                       query_sums[1][idx], query_sums[2][idx],
                                       db_sizes[idx], db_sizes[idx] * query_length,
                                       AsU16(device_rngs[idx][1].cuda_slice.words),
                                       AsU16(device_rngs[idx][2].cuda_slice.words))])

\* reshare_results: what the engine sends to its next peer, device by
\* device; a local engine has no comms and the indexing panics
ReshareSent(results, db_sizes, query_length, is_remote) ==
    IF ~is_remote THEN Err("index out of bounds")
    ELSE Ok([idx \in 1 .. DeviceCount |->
                SubSeq(results[idx], 1, db_sizes[idx] * query_length)])

\* fetch_results: the first db_sizes[device_id] * query_length cells of the
\* device's result buffer
FetchResults(results, db_sizes, device_id, query_length) ==
    SubSeq(results[device_id + 1], 1, db_sizes[device_id + 1] * query_length)

\* check_matmul: random matrices, an engine built by ShareDB::init, local as
\* in the test or remote, with the chacha_seeds ([0; 8], [0; 8]) of the test
\* or with two different seeds, and which build and chunking are in use
InitDot ==
    /\ InitProtocolIdle
    /\ faults = 0 /\ client = Idle /\ ingest = Idle /\ rngs = Idle
    /\ monitor = Idle /\ devices = Idle
    /\ \E sd \in 0 .. MaxGemmSeed, sq \in 0 .. MaxGemmSeed,
          oc \in BOOLEAN, alt \in BOOLEAN, remote \in BOOLEAN,
          chacha_seeds \in {<<[n \in 1 .. 8 |-> Zero32], [n \in 1 .. 8 |-> Zero32]>>,
                            <<[n \in 1 .. 8 |-> Zero32], [n \in 1 .. 8 |-> FromInt(1)]>>} :
          LET edge == <<0, 127, 128, 255, 256, 32767, 32768, 65534, 383, 33023>>
              random_vec(seed, n, m) ==
                  [p \in 1 .. n * m |->
                      IF (seed + p) % 2 = 0 THEN edge[((seed * 3 + p) % 10) + 1]
                      ELSE (seed * 7919 + p * 7723 + 12345) % (B - 1)]
          IN  gemm = [db |-> random_vec(sd, DeviceCount * RowsPerDevice, IRIS_CODE_LENGTH),
                      query |-> random_vec(sq + 1, QueryLength, IRIS_CODE_LENGTH),
                      overflow_checks |-> oc, alternating_chunks |-> alt,
                      db_sizes |-> [idx \in 1 .. DeviceCount |-> RowsPerDevice],
                      preprocessed_query |-> <<>>, query_sums |-> <<>>,
                      db_slices |-> <<>>, intermediate_results |-> <<>>,
                      results |-> <<>>, device_id |-> -1, gpu_result |-> <<>>,
                      gemms |-> <<>>,
                      is_remote |-> remote, chacha_seeds |-> chacha_seeds,
                      rngs |-> ShareDbRngs(DeviceCount * RowsPerDevice, QueryLength,
                                           chacha_seeds),
                      sent |-> <<>>, results_peer |-> <<>>,
                      panicked |-> FALSE]

\* the calls of check_matmul, one per step
CheckMatmul ==
    /\ ~gemm.panicked
    /\ \/ /\ gemm.preprocessed_query = <<>>
          /\ gemm' = [gemm EXCEPT !.preprocessed_query = PreprocessQuery(gemm.query)]
       \/ /\ gemm.preprocessed_query # <<>> /\ gemm.query_sums = <<>>
          /\ gemm' = [gemm EXCEPT
                         !.query_sums = QuerySums(gemm.preprocessed_query, QueryLength)]
       \/ /\ gemm.db_slices = <<>>
          /\ \E loaded \in LoadDbOutcomes(LoadDb(gemm.db, DeviceCount * RowsPerDevice,
                                                  DeviceCount * RowsPerDevice,
                                                  gemm.alternating_chunks,
                                                  gemm.overflow_checks)) :
                gemm' = IF loaded.ok THEN [gemm EXCEPT !.db_slices = <<loaded.val>>]
                        ELSE [gemm EXCEPT !.panicked = TRUE]
       \/ /\ gemm.preprocessed_query # <<>> /\ gemm.db_slices # <<>>
          /\ gemm.intermediate_results = <<>>
          /\ gemm' = [gemm EXCEPT
                         !.gemms = DotGemms,
                         !.rngs = DotRngs(@, gemm.is_remote, gemm.db_sizes, QueryLength),
                         !.intermediate_results =
                             Dot(gemm.preprocessed_query,
                                 <<gemm.db_slices[1].db0, gemm.db_slices[1].db1>>,
                                 gemm.db_sizes, QueryLength)]
       \/ /\ gemm.intermediate_results # <<>> /\ gemm.query_sums # <<>>
          /\ gemm.results = <<>>
          /\ LET reduced == DotReduce(gemm.intermediate_results, gemm.query_sums,
                                       <<gemm.db_slices[1].db0_sums,
                                         gemm.db_slices[1].db1_sums>>,
                                       gemm.db_sizes, QueryLength, gemm.rngs)
             IN  gemm' = IF reduced.ok THEN [gemm EXCEPT !.results = reduced.val]
                         ELSE [gemm EXCEPT !.panicked = TRUE]
       \/ /\ gemm.results # <<>>
          /\ \E device_idx \in 0 .. DeviceCount - 1 :
                /\ device_idx # gemm.device_id
                /\ gemm' = [gemm EXCEPT
                               !.device_id = device_idx,
                               !.gpu_result = FetchResults(gemm.results, gemm.db_sizes,
                                                           device_idx, QueryLength)]
    /\ UNCHANGED <<protocolVars, faults, client, ingest, rngs, monitor, devices>>

\* reshare_results after dot_reduce: the result slabs go to the next peer,
\* and the slabs the previous peer sent, of the same sizes, replace
\* results_peer
ReshareResults ==
    /\ ~gemm.panicked
    /\ gemm.results # <<>> /\ gemm.sent = <<>>
    /\ LET sent == ReshareSent(gemm.results, gemm.db_sizes, QueryLength, gemm.is_remote)
       IN  IF ~sent.ok THEN gemm' = [gemm EXCEPT !.panicked = TRUE]
           ELSE \E peer \in {0, 1} :
                   gemm' = [gemm EXCEPT
                               !.sent = sent.val,
                               !.results_peer =
                                   [idx \in 1 .. DeviceCount |->
                                       [p \in 1 .. Len(sent.val[idx]) |->
                                           Add16(sent.val[idx][p], peer)]]]
    /\ UNCHANGED <<protocolVars, faults, client, ingest, rngs, monitor, devices>>

NextDot == CheckMatmul \/ ReshareResults

SpecDot == InitDot /\ [][NextDot]_vars

\* the product of database row r and query q in Z_2^16 (rows from 0)
RowDotQuery(r, q) ==
    LET term(k) == Mul16(gemm.db[r * IRIS_CODE_LENGTH + k],
                         gemm.query[q * IRIS_CODE_LENGTH + k])
        acc[k \in 0 .. IRIS_CODE_LENGTH] ==
            IF k = 0 THEN 0 ELSE Add16(acc[k - 1], term(k))
    IN  acc[IRIS_CODE_LENGTH]

\* the database row held at position j of device d
RowOnDevice(d, j) ==
    IF gemm.alternating_chunks THEN j * DeviceCount + d ELSE d * RowsPerDevice + j

\* the u16 word at position p (from 1) of the keystream that a seed yields on
\* a device, from block 0 on
MaskWord(seed, device_id, p) ==
    LET ctx == ChaChaCtxInit(seed, Zero64, FromInt64(device_id))
    IN  AsU16(KeyStream(ctx, ctx[13], ctx[14], (p + 1) \div 2))[p]

\* what the masks add to cell p of a device's slab: nothing on a local
\* engine, the difference of the two keystreams on a remote one
MaskDifference(device_id, p) ==
    IF ~gemm.is_remote THEN 0
    ELSE Sub16(MaskWord(gemm.chacha_seeds[1], device_id, p),
               MaskWord(gemm.chacha_seeds[2], device_id, p))

\* C19 as stated: the slab fetched from a device holds, query by query, the
\* product modulo 2^16 of every database row stored on that device with the
\* query, for any database and query.
C19_SlabIsDotProduct ==
    gemm.gpu_result # <<>> =>
        /\ Len(gemm.gpu_result) = RowsPerDevice * QueryLength
        /\ \A q \in 0 .. QueryLength - 1, j \in 0 .. RowsPerDevice - 1 :
              gemm.gpu_result[q * RowsPerDevice + j + 1]
                  = RowDotQuery(RowOnDevice(gemm.device_id, j), q)

\* C19 amended: the slab fetched from a device holds, query by query, for
\* every database row stored on that device the product with the query plus
\* the cell's word of the first seed's keystream minus that of the second
\* seed's, modulo 2^16, on a remote engine, and the product itself on a
\* local engine and on an engine whose two seeds are equal; the centring by
\* 128 and the limb-sum corrections lose nothing.
C19_SlabIsMaskedDotProduct ==
    gemm.gpu_result # <<>> =>
        /\ Len(gemm.gpu_result) = RowsPerDevice * QueryLength
        /\ \A q \in 0 .. QueryLength - 1, j \in 0 .. RowsPerDevice - 1 :
              LET p == q * RowsPerDevice + j + 1
                  product == RowDotQuery(RowOnDevice(gemm.device_id, j), q)
              IN  /\ gemm.gpu_result[p]
                        = Add16(product, MaskDifference(gemm.device_id, p))
                  /\ (~gemm.is_remote \/ gemm.chacha_seeds[1] = gemm.chacha_seeds[2])
                        => gemm.gpu_result[p] = product

\* a slab of the last device of a local engine has been fetched whose cells
\* are not all equal, from a row with limbs on both sides of 128
LocalSlabFetched ==
    /\ gemm.gpu_result # <<>>
    /\ ~gemm.is_remote
    /\ gemm.device_id = DeviceCount - 1
    /\ gemm.gpu_result[1] # gemm.gpu_result[RowsPerDevice + 1]
    /\ gemm.gpu_result[1] # gemm.gpu_result[2]
    /\ gemm.gpu_result[1] # 0
    /\ gemm.gpu_result[1] = RowDotQuery(RowOnDevice(gemm.device_id, 0), 0)

\* a slab of the last device of a remote engine with two different seeds has
\* been fetched, from a row with limbs on both sides of 128: its cells are
\* not all equal and none of them is the product
C19_Witness ==
    /\ gemm.gpu_result # <<>>
    /\ gemm.is_remote
    /\ gemm.chacha_seeds[1] # gemm.chacha_seeds[2]
    /\ gemm.device_id = DeviceCount - 1
    /\ gemm.gpu_result[1] # gemm.gpu_result[2]
    /\ \A q \in 0 .. QueryLength - 1, j \in 0 .. RowsPerDevice - 1 :
          gemm.gpu_result[q * RowsPerDevice + j + 1]
              # RowDotQuery(RowOnDevice(gemm.device_id, j), q)
    /\ \E k \in 1 .. IRIS_CODE_LENGTH :
          /\ gemm.db[k] % Byte < 128
          /\ gemm.db[k] \div Byte >= 128

\* the low 16 bits of every cell of a buffer
Low16(buffer) == [idx \in 1 .. Len(buffer) |-> Lo(buffer[idx])]

\* C27 as stated: dot runs four GEMMs, one for every limb pair (i, j), with
\* weight 2^(8 (i + j)).
C27_FourGemms ==
    gemm.intermediate_results # <<>> =>
        /\ Len(gemm.gemms) = 4
        /\ \A i \in {0, 1}, j \in {0, 1} :
              \E n \in 1 .. 4 :
                 /\ gemm.gemms[n].i = i /\ gemm.gemms[n].j = j
                 /\ gemm.gemms[n].alpha = 2 ^ (8 * (i + j))

\* C27: dot runs three GEMMs, for the limb pairs (0, 0), (0, 1), (1, 0) with
\* the weights 2^0, 2^8, 2^8, the first overwriting and the others adding to
\* the buffer; the pair (1, 1) of weight 2^16 is skipped, and running it
\* too would leave the low 16 bits of every cell as they are.
C27_ThreeGemms ==
    gemm.intermediate_results # <<>> =>
        /\ gemm.gemms = << [i |-> 0, j |-> 0, alpha |-> 1, beta |-> 0],
                           [i |-> 0, j |-> 1, alpha |-> 2 ^ 8, beta |-> 1],
                           [i |-> 1, j |-> 0, alpha |-> 2 ^ 8, beta |-> 1] >>
        /\ \A idx \in 1 .. DeviceCount :
              Low16(gemm.intermediate_results[idx])
                  = Low16(RunGemms(gemm.gemms \o <<[i |-> 1, j |-> 1, alpha |-> 2 ^ 16,
                                                   beta |-> 1]>>,
                                   gemm.preprocessed_query,
                                   <<gemm.db_slices[1].db0, gemm.db_slices[1].db1>>,
                                   gemm.db_sizes, QueryLength, idx))

\* dot has run on a database whose high limbs are not all equal, and the
\* skipped product would have changed the buffer above bit 16
C27_Witness ==
    /\ gemm.intermediate_results # <<>>
    /\ Len(gemm.gemms) = 3
    /\ gemm.intermediate_results[1]
          # RunGemms(gemm.gemms \o <<[i |-> 1, j |-> 1, alpha |-> 2 ^ 16, beta |-> 1]>>,
                     gemm.preprocessed_query,
                     <<gemm.db_slices[1].db0, gemm.db_slices[1].db1>>,
                     gemm.db_sizes, QueryLength, 1)

(***************************************************************************)
(* ChaChaCudaCorrRng (src/rng/chacha_corr.rs): two ChaCha contexts per     *)
(* instance; a fill writes the keystream of the first context into the     *)
(* buffer and XORs the keystream of the second into it, then advances both *)
(* counters by the number of 16-word blocks produced.                      *)
(***************************************************************************)
MaxBlocks == 2
MaxFills == 2
MaxSeedWord == 2

\* ChaChaCudaCorrRng::init(dev, seed1, seed2)
ChaChaCudaCorrRngInit(seed1, seed2) ==
    LET chacha_ctx1 == ChaChaCtxInit(seed1, Zero64, Zero64)
        chacha_ctx2 == ChaChaCtxInit(seed2, Zero64, Zero64)
    IN  [chacha_ctx1 |-> chacha_ctx1, chacha_ctx2 |-> chacha_ctx2,
         state1_gpu_buf |-> chacha_ctx1, state2_gpu_buf |-> chacha_ctx2]

FillRngInto_StaleSecondCounter(rng, buf, overflow_checks) ==
    LET len == Len(buf)
        num_ks_calls == len \div 16
        first == ChaCha12(buf, rng.state1_gpu_buf, rng.chacha_ctx1[13],
                          rng.chacha_ctx1[14], len)
        second == ChaCha12Xor(first, rng.state2_gpu_buf, rng.state2_gpu_buf[13],
                              rng.state2_gpu_buf[14], len)
        advanced1 == [rng EXCEPT !.chacha_ctx1 = AdvanceCounter(@, num_ks_calls)]
    IN  IF len % 16 # 0
        THEN ErrLeaving("buffer length must be a multiple of 16",
                        [buf |-> buf, rng |-> rng, launched |-> <<>>, advanced |-> {}])
        ELSE IF overflow_checks /\ CounterOverflows(rng.chacha_ctx1, num_ks_calls)
        THEN ErrLeaving("attempt to add with overflow",
                        [buf |-> first, rng |-> rng, launched |-> <<1>>, advanced |-> {}])
        ELSE IF overflow_checks /\ CounterOverflows(rng.chacha_ctx2, num_ks_calls)
        THEN ErrLeaving("attempt to add with overflow",
                        [buf |-> second, rng |-> advanced1, launched |-> <<1, 2>>,
                         advanced |-> {1}])
        ELSE Ok([buf |-> second,
                 rng |-> [advanced1 EXCEPT !.chacha_ctx2 = AdvanceCounter(@, num_ks_calls)],
                 launched |-> <<1, 2>>, advanced |-> {1, 2}])

\* fill_rng_into(buf, stream): kernel chacha12 with the counter of the first
\* context, the counter advanced, kernel chacha12_xor with the counter of
\* the second context, that counter advanced; a panic on the way leaves
\* what the steps before it did
FillRngInto(rng, buf, overflow_checks) ==
    LET len == Len(buf)
        num_ks_calls == len \div 16
        first == ChaCha12(buf, rng.state1_gpu_buf, rng.chacha_ctx1[13],
                          rng.chacha_ctx1[14], len)
        second == ChaCha12Xor(first, rng.state2_gpu_buf, rng.chacha_ctx2[13],
                              rng.chacha_ctx2[14], len)
        advanced1 == [rng EXCEPT !.chacha_ctx1 = AdvanceCounter(@, num_ks_calls)]
    IN  IF len % 16 # 0
        THEN ErrLeaving("buffer length must be a multiple of 16",
                        [buf |-> buf, rng |-> rng, launched |-> <<>>, advanced |-> {}])
        ELSE IF overflow_checks /\ CounterOverflows(rng.chacha_ctx1, num_ks_calls)
        THEN ErrLeaving("attempt to add with overflow",
                        [buf |-> first, rng |-> rng, launched |-> <<1>>, advanced |-> {}])
        ELSE IF overflow_checks /\ CounterOverflows(rng.chacha_ctx2, num_ks_calls)
        THEN ErrLeaving("attempt to add with overflow",
                        [buf |-> second, rng |-> advanced1, launched |-> <<1, 2>>,
                         advanced |-> {1}])
        ELSE Ok([buf |-> second,
                 rng |-> [advanced1 EXCEPT !.chacha_ctx2 = AdvanceCounter(@, num_ks_calls)],
                 launched |-> <<1, 2>>, advanced |-> {1, 2}])

\* test_correlation: three instances over the seed pairs (s1, s2), (s2, s3),
\* (s3, s1), s1 = [0; 8] and s2, s3 eight equal words each, and one zeroed
\* device buffer
InitRng ==
    /\ InitProtocolIdle
    /\ faults = 0 /\ client = Idle /\ ingest = Idle /\ gemm = Idle
    /\ monitor = Idle /\ devices = Idle
    /\ \E b \in 0 .. MaxSeedWord, c \in 0 .. MaxSeedWord :
          LET seed1 == [n \in 1 .. 8 |-> FromU16(0)]
              seed2 == [n \in 1 .. 8 |-> FromU16(b)]
              seed3 == [n \in 1 .. 8 |-> FromU16(c)]
          IN  rngs = [rng |-> <<ChaChaCudaCorrRngInit(seed1, seed2),
                                ChaChaCudaCorrRngInit(seed2, seed3),
                                ChaChaCudaCorrRngInit(seed3, seed1)>>,
                      buf |-> [p \in 1 .. 16 * MaxBlocks |-> Zero32],
                      data |-> <<<<>>, <<>>, <<>>>>,
                      len |-> 0, done |-> {}, fills |-> 0, panicked |-> FALSE]

\* instance i fills the first len words of the buffer and the words are
\* copied back; the three instances make their k-th call with the same len,
\* in any order
FillStep(i, len) ==
    /\ ~rngs.panicked
    /\ \/ rngs.done \in {{}, {1, 2, 3}} /\ rngs.fills < MaxFills
       \/ rngs.done \notin {{}, {1, 2, 3}} /\ i \notin rngs.done /\ len = rngs.len
    /\ LET filled == FillRngInto(rngs.rng[i], SubSeq(rngs.buf, 1, len), TRUE)
       IN  rngs' =
             IF ~filled.ok
             THEN [rngs EXCEPT
                      !.panicked = TRUE,
                      !.rng[i] = filled.val.rng,
                      !.buf = filled.val.buf \o SubSeq(rngs.buf, len + 1, Len(rngs.buf))]
             ELSE [rngs EXCEPT
                      !.rng[i] = filled.val.rng,
                      !.buf = filled.val.buf \o SubSeq(rngs.buf, len + 1, Len(rngs.buf)),
                      !.data[i] = filled.val.buf,
                      !.len = len,
                      !.done = IF rngs.done \in {{}, {1, 2, 3}} THEN {i} ELSE rngs.done \cup {i},
                      !.fills = IF rngs.done \in {{}, {1, 2, 3}} THEN rngs.fills + 1
                                ELSE rngs.fills]
    /\ UNCHANGED <<protocolVars, faults, client, ingest, gemm, monitor, devices>>

NextRng == \E i \in 1 .. 3, len \in {16 * k : k \in 1 .. MaxBlocks} \cup {8} : FillStep(i, len)

SpecRng == InitRng /\ [][NextRng]_vars

\* C20: once the three instances have made the same calls, the three
\* buffers of the last call XOR to zero, word by word.
C20_BuffersXorToZero ==
    rngs.done = {1, 2, 3} =>
        /\ Len(rngs.data[1]) = rngs.len
        /\ Len(rngs.data[2]) = rngs.len
        /\ Len(rngs.data[3]) = rngs.len
        /\ \A p \in 1 .. rngs.len :
              Xor32(Xor32(rngs.data[1][p], rngs.data[2][p]), rngs.data[3][p]) = Zero32

\* the three instances, over three different seeds, have completed their
\* second call, and the buffers differ from each other and from zero
C20_Witness ==
    /\ rngs.done = {1, 2, 3}
    /\ rngs.fills = 2
    /\ rngs.len = 32
    /\ rngs.data[1] # rngs.data[2]
    /\ rngs.data[2] # rngs.data[3]
    /\ rngs.data[1][1] # Zero32
    /\ rngs.data[1][1] # rngs.data[1][17]
    /\ rngs.rng[1].chacha_ctx1[13] # Zero32

(***************************************************************************)
(* TaskMonitor (src/helpers/task_monitor.rs) over a tokio JoinSet.         *)
(* A task is spawned into the set, runs, and exits normally, by a panic,   *)
(* or, once its abort has been requested, by cancellation; the set hands   *)
(* out the results of exited tasks in the order of their exits and forgets *)
(* a task when its result is taken.  monitor.pc is where the owner of the  *)
(* monitor is: ready for a call, waiting inside abort_and_wait_for_finish, *)
(* dropping (between the two statements of drop), dropped, or panicked.    *)
(***************************************************************************)
MaxTasks == 2
MaxCalls == 3

TaskIds == 1 .. MaxTasks
Exited == {"ok", "cancelled", "panicked"}

\* the tasks the set holds (len(), is_empty())
Owned(m) == {t \in TaskIds : m.tasks[t].member}

\* JoinSet::try_join_next: the result of the task that exited first among
\* those not yet taken, which leaves the set, or nothing
TryJoinNext(m) ==
    IF m.notified = <<>> THEN [some |-> FALSE, result |-> "", m |-> m]
    ELSE [some |-> TRUE,
          result |-> m.tasks[Head(m.notified)].st,
          m |-> [m EXCEPT !.notified = Tail(@),
                          !.tasks[Head(m.notified)].member = FALSE]]

\* JoinSet::abort_all: requests the abort of every task in the set
JoinSetAbortAll(m) ==
    [m EXCEPT !.tasks = [t \in TaskIds |->
                            IF m.tasks[t].member THEN [m.tasks[t] EXCEPT !.abort = TRUE]
                            ELSE m.tasks[t]]]

Panic(m, message) == [m EXCEPT !.pc = "panicked", !.message = message]

\* mutant: no result resumes a panic
ResumePanic_Swallows(result) == FALSE
\* resume_panic: whether the result of a task resumes a panic
ResumePanic(result) == result \notin {"ok", "cancelled"}

CheckTasks_IgnoresNormalExit(m) ==
    LET next == TryJoinNext(m)
    IN  IF ~next.some \/ next.result = "ok" THEN m
        ELSE Panic(next.m, "Monitored task was panicked or cancelled")

\* check_tasks
CheckTasks(m) ==
    LET next == TryJoinNext(m)
    IN  IF ~next.some THEN m
        ELSE IF next.result # "ok"
        THEN Panic(next.m, "Monitored task was panicked or cancelled")
        ELSE Panic(next.m, "Monitored task unexpectedly finished without an error")

\* abort_all
AbortAll(m) ==
    LET checked == CheckTasks(m)
    IN  IF checked.pc = "panicked" THEN checked ELSE JoinSetAbortAll(checked)

CheckTasksFinished_IgnoresHang(m) ==
    LET RECURSIVE drain(_)
        drain(cur) ==
            LET next == TryJoinNext(cur)
            IN  IF ~next.some THEN cur
                ELSE IF ResumePanic(next.result) THEN Panic(next.m, "task panic")
                ELSE drain(next.m)
    IN  drain(m)

CheckTasksFinished_PanicsOnCancelled(m) ==
    LET RECURSIVE drain(_)
        drain(cur) ==
            LET next == TryJoinNext(cur)
            IN  IF ~next.some THEN cur
                ELSE IF next.result # "ok" THEN Panic(next.m, "task panic")
                ELSE drain(next.m)
        drained == drain(m)
    IN  IF drained.pc = "panicked" THEN drained
        ELSE IF Owned(drained) # {}
        THEN Panic(drained, "monitored tasks hung even when aborted")
        ELSE drained

\* check_tasks_finished
CheckTasksFinished(m) ==
    LET RECURSIVE drain(_)
        drain(cur) ==
            LET next == TryJoinNext(cur)
            IN  IF ~next.some THEN cur
                ELSE IF ResumePanic(next.result) THEN Panic(next.m, "task panic")
                ELSE drain(next.m)
        drained == drain(m)
    IN  IF drained.pc = "panicked" THEN drained
        ELSE IF Owned(drained) # {}
        THEN Panic(drained, "monitored tasks hung even when aborted")
        ELSE drained

\* check_tasks_finished_ignoring_hangs
CheckTasksFinishedIgnoringHangs(m) ==
    LET RECURSIVE drain(_)
        drain(cur) ==
            LET next == TryJoinNext(cur)
            IN  IF ~next.some THEN cur
                ELSE IF ResumePanic(next.result) THEN Panic(next.m, "task panic")
                ELSE drain(next.m)
    IN  drain(m)

DropAbort_NoAbort(m) == [m EXCEPT !.pc = "dropping"]

\* drop, first statement: self.tasks.abort_all()
DropAbort(m) == [JoinSetAbortAll(m) EXCEPT !.pc = "dropping"]

\* TaskMonitor::new()
InitTasks ==
    /\ InitProtocolIdle
    /\ faults = 0 /\ client = Idle /\ ingest = Idle /\ gemm = Idle /\ rngs = Idle
    /\ devices = Idle
    /\ monitor = [tasks |-> [t \in TaskIds |-> [st |-> "none", member |-> FALSE,
                                                abort |-> FALSE]],
                  notified |-> <<>>, pc |-> "ready", message |-> "",
                  op |-> "new", ncalls |-> 0, shutdown |-> "none"]

\* the tasks: spawn into the set; exit of a running task, normally or by a
\* panic at any time, by cancellation once its abort has been requested
TaskStep ==
    /\ monitor.pc \in {"ready", "waiting", "dropping"}
    /\ \E t \in TaskIds :
          \/ /\ monitor.pc = "ready" /\ monitor.tasks[t].st = "none"
             /\ monitor' = [monitor EXCEPT
                               !.tasks[t] = [st |-> "running", member |-> TRUE,
                                             abort |-> FALSE],
                               !.shutdown = IF @ = "none" THEN @ ELSE "off"]
          \/ /\ monitor.tasks[t].st = "running"
             /\ \E how \in Exited :
                   /\ how = "cancelled" => monitor.tasks[t].abort
                   /\ monitor' = [monitor EXCEPT !.tasks[t].st = how,
                                                 !.notified = Append(@, t)]
    /\ UNCHANGED <<protocolVars, faults, client, ingest, gemm, rngs, devices>>

\* whether every task of the set has exited
AllExited(m) == \A t \in Owned(m) : m.tasks[t].st \in Exited

\* one call of the owner on the monitor; shutdown follows the documented
\* sequence: abort_all(), wait, check_tasks_finished(), drop
MonitorCall ==
    /\ LET call(op, after, shutdown) ==
               monitor' = [after EXCEPT !.op = op, !.ncalls = monitor.ncalls + 1,
                                        !.shutdown = shutdown]
           step(after) == monitor' = after
       IN  \/ /\ monitor.pc = "ready" /\ monitor.ncalls < MaxCalls
              /\ \/ call("check_tasks", CheckTasks(monitor),
                         IF monitor.shutdown = "none" THEN "none" ELSE "off")
                 \/ call("abort_all", AbortAll(monitor),
                         IF /\ monitor.shutdown = "none"
                            /\ \A t \in TaskIds : monitor.tasks[t].st \notin Exited
                         THEN "aborted" ELSE "off")
                 \/ call("check_tasks_finished", CheckTasksFinished(monitor),
                         IF monitor.shutdown = "aborted" /\ AllExited(monitor)
                         THEN "checked" ELSE "off")
                 \/ call("check_tasks_finished_ignoring_hangs",
                         CheckTasksFinishedIgnoringHangs(monitor), "off")
                 \/ call("abort_and_wait_for_finish",
                         LET aborted == AbortAll(monitor)
                         IN  IF aborted.pc = "panicked" THEN aborted
                             ELSE [aborted EXCEPT !.pc = "waiting"],
                         "off")
                 \/ call("drop", DropAbort(monitor),
                         IF monitor.shutdown = "checked" THEN "dropped" ELSE "off")
           \* abort_and_wait_for_finish: join_next().await and resume_panic
           \/ /\ monitor.pc = "waiting"
              /\ \/ /\ monitor.notified # <<>>
                    /\ LET next == TryJoinNext(monitor)
                       IN  step(IF ResumePanic(next.result) THEN Panic(next.m, "task panic")
                                ELSE next.m)
                 \/ /\ Owned(monitor) = {}
                    /\ step([monitor EXCEPT !.pc = "ready"])
           \* drop, second statement: self.check_tasks_finished()
           \/ /\ monitor.pc = "dropping"
              /\ LET checked == CheckTasksFinished(monitor)
                 IN  step(IF checked.pc = "panicked" THEN checked
                          ELSE [checked EXCEPT !.pc = "dropped"])
    /\ UNCHANGED <<protocolVars, faults, client, ingest, gemm, rngs, devices>>

NextTasks == TaskStep \/ MonitorCall

SpecTasks == InitTasks /\ [][NextTasks]_vars

\* the step is a call of op on the monitor
Calls(op) == monitor'.ncalls = monitor.ncalls + 1 /\ monitor'.op = op

\* the tasks of the set that have exited, and those that exited by a panic
ExitedTasks(m) == {t \in Owned(m) : m.tasks[t].st \in Exited}
PanickedTasks(m) == {t \in Owned(m) : m.tasks[t].st = "panicked"}

\* C21: check_tasks panics when some task of the set has exited, however it
\* exited, and otherwise returns with the set as it was.
C21_CheckTasks ==
    [][Calls("check_tasks") =>
          IF ExitedTasks(monitor) # {} THEN monitor'.pc = "panicked"
          ELSE /\ monitor'.pc = "ready"
               /\ monitor'.tasks = monitor.tasks
               /\ monitor'.notified = monitor.notified]_vars

\* check_tasks has panicked on a task that exited normally while another
\* task was still running
C21_Witness ==
    /\ monitor.op = "check_tasks"
    /\ monitor.pc = "panicked"
    /\ monitor.message = "Monitored task unexpectedly finished without an error"
    /\ \E t \in TaskIds : monitor.tasks[t].st = "running"

\* the tasks of the set that are still running
HungTasks(m) == {t \in Owned(m) : m.tasks[t].st = "running"}

\* C22: check_tasks_finished panics exactly when a task of the set exited by
\* a panic or has not exited yet; tasks that exited normally or by
\* cancellation are passed over, and when it returns the set is empty.
C22_CheckTasksFinished ==
    [][Calls("check_tasks_finished") =>
          /\ monitor'.pc = "panicked"
                <=> PanickedTasks(monitor) # {} \/ HungTasks(monitor) # {}
          /\ monitor'.pc # "panicked" => monitor'.pc = "ready" /\ Owned(monitor') = {}]_vars

\* check_tasks_finished has returned after taking the result of a task that
\* exited normally and of one that was cancelled
C22_Witness ==
    /\ monitor.op = "check_tasks_finished"
    /\ monitor.pc = "ready"
    /\ \E t \in TaskIds : monitor.tasks[t].st = "ok" /\ ~monitor.tasks[t].member
    /\ \E t \in TaskIds : monitor.tasks[t].st = "cancelled" /\ ~monitor.tasks[t].member

\* the step is inside abort_and_wait_for_finish: its call, or a result taken
\* while it waits
InAbortAndWait ==
    \/ Calls("abort_and_wait_for_finish")
    \/ monitor.pc = "waiting" /\ monitor' # monitor

\* C23: abort_and_wait_for_finish panics only if a task of the set exited by
\* a panic.
C23_PanicsOnlyOnTaskPanic ==
    [][InAbortAndWait /\ monitor'.pc = "panicked" => PanickedTasks(monitor) # {}]_vars

\* the step is the second statement of drop
DropChecks == monitor.pc = "dropping" /\ monitor'.pc # "dropping"

\* C24: drop requests the abort of every task of the set, and then panics
\* exactly when a task of the set exited by a panic or has not exited.
C24_Drop ==
    /\ [][Calls("drop") =>
             /\ monitor'.pc = "dropping"
             /\ Owned(monitor') = Owned(monitor)
             /\ \A t \in Owned(monitor) : monitor'.tasks[t].abort]_vars
    /\ [][DropChecks =>
             /\ monitor'.pc = "panicked"
                   <=> PanickedTasks(monitor) # {} \/ HungTasks(monitor) # {}
             /\ monitor'.pc # "panicked" => monitor'.pc = "dropped" /\ Owned(monitor') = {}]_vars

\* a drop has completed silently over a task that exited normally and a task
\* cancelled by the drop itself
C24_Witness ==
    /\ monitor.pc = "dropped"
    /\ monitor.ncalls = 1
    /\ \E t \in TaskIds : monitor.tasks[t].st = "ok"
    /\ \E t \in TaskIds : monitor.tasks[t].st = "cancelled"

\* C25: along abort_all(), wait for every task, check_tasks_finished(), drop,
\* started when no task had exited, nothing panics as long as no task
\* panics, and the set is empty from check_tasks_finished on.
C25_ShutdownSequence ==
    /\ monitor.shutdown \in {"aborted", "checked", "dropped"}
    /\ \A t \in TaskIds : monitor.tasks[t].st # "panicked"
    => /\ monitor.pc # "panicked"
       /\ monitor.shutdown \in {"checked", "dropped"} => Owned(monitor) = {}

\* the sequence has run to the end over two tasks, one cancelled and one that
\* exited normally after the abort
C25_Witness ==
    /\ monitor.shutdown = "dropped"
    /\ monitor.pc = "dropped"
    /\ \E t \in TaskIds : monitor.tasks[t].st = "ok" /\ monitor.tasks[t].abort
    /\ \E t \in TaskIds : monitor.tasks[t].st = "cancelled"

(***************************************************************************)
(* DeviceManager (src/helpers/device_manager.rs): a manager is the vector  *)
(* of its devices; devices.pool are the managers alive, devices.last the   *)
(* last call of split_into_n_chunks, which consumes its manager.           *)
(***************************************************************************)
MaxDevices == 4
MaxChunks == 3

SplitIntoNChunks_ChunksOverlap(self, n) ==
    IF n = 0 THEN Err("attempt to divide by zero")
    ELSE LET n_devices == Len(self)
             chunk_size == n_devices \div n
         IN  IF chunk_size = 0 THEN [ok |-> FALSE, val |-> self, err |-> "original"]
             ELSE Ok([i \in 1 .. n |->
                         SubSeq(self, (i - 1) * chunk_size + 1,
                                Min(i * chunk_size + 1, n_devices))])

\* split_into_n_chunks(self, n): Ok(chunks), Err(self), or the panic of the
\* division when n = 0
SplitIntoNChunks(self, n) ==
    IF n = 0 THEN Err("attempt to divide by zero")
    ELSE LET n_devices == Len(self)
             chunk_size == n_devices \div n
         IN  IF chunk_size = 0 THEN [ok |-> FALSE, val |-> self, err |-> "original"]
             ELSE Ok([i \in 1 .. n |->
                         SubSeq(self, (i - 1) * chunk_size + 1, i * chunk_size)])

\* DeviceManager::init(): one manager over the devices 0 .. count - 1
InitDevices ==
    /\ InitProtocolIdle
    /\ faults = 0 /\ client = Idle /\ ingest = Idle /\ gemm = Idle /\ rngs = Idle
    /\ monitor = Idle
    /\ \E count \in 0 .. MaxDevices :
          devices = [pool |-> << [i \in 1 .. count |-> i - 1] >>,
                     last |-> [self |-> <<>>, n |-> 0, ret |-> Err("none")],
                     panicked |-> FALSE]

\* a manager of the pool is split; the chunks, or the manager handed back,
\* take its place
Split ==
    /\ ~devices.panicked
    /\ \E k \in 1 .. Len(devices.pool), n \in 0 .. MaxChunks :
          LET self == devices.pool[k]
              ret == SplitIntoNChunks(self, n)
              others == SubSeq(devices.pool, 1, k - 1)
                        \o SubSeq(devices.pool, k + 1, Len(devices.pool))
          IN  devices' = [pool |-> IF ret.ok THEN others \o ret.val
                                   ELSE IF ret.err = "original" THEN others \o <<ret.val>>
                                   ELSE others,
                          last |-> [self |-> self, n |-> n, ret |-> ret],
                          panicked |-> ~ret.ok /\ ret.err # "original"]
    /\ UNCHANGED <<protocolVars, faults, client, ingest, gemm, rngs, monitor>>

SpecDevices == InitDevices /\ [][Split]_vars

\* the devices of a manager
DevicesOf(manager) == {manager[i] : i \in 1 .. Len(manager)}

\* C26: with d >= n >= 1 the call returns n managers of floor(d / n) devices
\* each, consecutive pieces of the original in its order and pairwise
\* disjoint; with d < n it returns the original manager as the error.
C26_SplitIntoNChunks ==
    LET self == devices.last.self
        n == devices.last.n
        ret == devices.last.ret
        d == Len(self)
    IN  /\ d >= n /\ n >= 1 =>
              /\ ret.ok
              /\ Len(ret.val) = n
              /\ \A i \in 1 .. n :
                    /\ Len(ret.val[i]) = d \div n
                    /\ \A j \in 1 .. d \div n : ret.val[i][j] = self[(i - 1) * (d \div n) + j]
              /\ \A i \in 1 .. n : \A j \in 1 .. n :
                    i # j => DevicesOf(ret.val[i]) \cap DevicesOf(ret.val[j]) = {}
        /\ d < n => ~ret.ok /\ ret.err = "original" /\ ret.val = self
        /\ \A i \in 1 .. Len(devices.pool) : \A j \in 1 .. Len(devices.pool) :
              i # j => DevicesOf(devices.pool[i]) \cap DevicesOf(devices.pool[j]) = {}

\* a manager of three devices was split two ways: one device each, the
\* third left out
C26_Witness ==
    /\ devices.last.ret.ok
    /\ devices.last.n = 2
    /\ Len(devices.last.self) = 3
    /\ devices.last.ret.val = << <<0>>, <<1>> >>
    /\ Len(devices.pool) = 2

(***************************************************************************)
(* Further properties of the protocol layer (specification Spec).          *)
(***************************************************************************)
\* b of every party is a of its previous party, in every element of the
\* vectors the parties hold under the field f
Replicated(f) ==
    \A i \in Party : \A k \in 1 .. Len(loc[i][f]) :
        loc[i][f][k].b = loc[PrevRole(i)][f][k].a

\* C28: once the three parties have added the constant of batch_signed_lift,
\* the secret of every element is 2^15 more (mod 2^16) than before the lift
\* and 2^15 less (mod 2^32) than the lifted value after it, and b of every
\* party is still a of its previous party.
C28_SignedLiftConstant ==
    scenario = "slift" =>
        /\ (\A i \in Party : pc[i] = "lift_wait") =>
              /\ Replicated("pre")
              /\ \A k \in 1 .. Len(inp.secrets) :
                    Secret(16, loc[0].pre[k].a, loc[1].pre[k].a, loc[2].pre[k].a)
                        = Add16(inp.secrets[k], 2 ^ 15)
        /\ (\A i \in Party : pc[i] \in {"slift_done", "openmany_recv", "done"}) =>
              /\ Replicated("sh32")
              /\ \A k \in 1 .. Len(inp.secrets) :
                    Secret(32, loc[0].sh32[k].a, loc[1].sh32[k].a, loc[2].sh32[k].a)
                        = Sub32(LiftValue(Add16(inp.secrets[k], 2 ^ 15)), U32(0, 2 ^ 15))

\* the three parties have added both constants to a batch of two whose
\* shares differ between the parties, and none has opened yet
C28_Witness ==
    /\ scenario = "slift"
    /\ \A i \in Party : pc[i] = "slift_done"
    /\ Len(inp.secrets) = 2
    /\ inp.secrets[1] >= Half
    /\ loc[0].sh32[1].a # loc[1].sh32[1].a
    /\ loc[0].pre[1].a # loc[2].pre[1].a

(***************************************************************************)
(* One session (specifications SpecSession and SpecSessionLive): every     *)
(* party runs setup_replicated_prf, galois_ring_pairwise_distance on two   *)
(* pairs, galois_ring_to_rep3 on the four dot products and                 *)
(* cross_mul_via_lift on the four shares, over the same three channels.    *)
(* The messages batch_signed_lift exchanges are in protocol/binary.rs; a   *)
(* party obtains its lifted shares on its own here, whatever the progress  *)
(* of the other two, which allows every order of the rounds of ops.rs that *)
(* a lift with messages allows.                                            *)
(***************************************************************************)
InitSession ==
    /\ InitCommon
    /\ faults = 0
    /\ scenario = "session"
    /\ inp = [seeds |-> TestSeeds, secrets |-> <<>>, n |-> 2]

\* the dot products the three parties hold additively, summed
SessionDistance(k) ==
    Secret(16, GaloisRingPairwiseDistance(IrisPairs(0))[k],
               GaloisRingPairwiseDistance(IrisPairs(1))[k],
               GaloisRingPairwiseDistance(IrisPairs(2))[k])
\* the secrets batch_signed_lift hands to lift::<16>: d1, t2, d2, t1, each
\* with 2^15 added
SessionPreLift ==
    LET v == CrossPreLift(SessionDistance(1), SessionDistance(2),
                          SessionDistance(3), SessionDistance(4))
    IN  [k \in 1 .. 4 |-> Add16(v[k], SignShift16)]

\* cross_mul_via_lift(d1, t1, d2, t2) on the shares galois_ring_to_rep3
\* returned, up to the call of lift
SessionCrossBegin(i) ==
    /\ pc[i] = "rep3_done"
    /\ scenario = "session"
    /\ loc' = [loc EXCEPT ![i].pre =
                  SignedLiftPre(CrossPreLift(loc[i].sh16[1], loc[i].sh16[2],
                                             loc[i].sh16[3], loc[i].sh16[4]), i)]
    /\ Goto(i, "lift_wait")
    /\ UNCHANGED <<otherVars, scenario, inp, tape, prf, net, out, zs, nsent>>

\* lift::<16> returns to party i its share of the lifted values
SessionLift(i) ==
    /\ pc[i] = "lift_wait"
    /\ scenario = "session"
    /\ loc' = [loc EXCEPT ![i].sh32 =
                  [k \in 1 .. 4 |->
                      FreshSharing32(tape, k, LiftValue(SessionPreLift[k]))[i + 1]]]
    /\ Goto(i, "lifted")
    /\ UNCHANGED <<otherVars, scenario, inp, tape, prf, net, out, zs, nsent>>

SessionStep(i) ==
    \/ SetupSend(i)
    \/ SetupRecv(i)
    \/ PairwiseDistance(i)
    \/ ToRep3Send(i)
    \/ ToRep3Recv(i)
    \/ SessionCrossBegin(i)
    \/ SessionLift(i)
    \/ CrossMulSend(i)
    \/ CrossMulRecv(i)

NextSession == \E i \in Party : SessionStep(i)

SpecSession == InitSession /\ [][NextSession]_vars

\* Every party is a spawned task that the runtime polls whenever it can
\* make a step, and the transport keeps a message until it is received: as
\* long as some party can make a step, some party eventually makes one.
SpecSessionLive == SpecSession /\ WF_vars(NextSession)


\* the secrets of the shares the parties pass to lift are those the lift
\* of this section shares out again
SessionLiftConsistent ==
    (scenario = "session" /\ \A i \in Party : pc[i] \in {"lift_wait", "lifted", "cross_recv", "cross_done"})
        => \A k \in 1 .. 4 :
              Secret(16, loc[0].pre[k].a, loc[1].pre[k].a, loc[2].pre[k].a) = SessionPreLift[k]

\* party i has returned from the three operations with their results: the
\* Prf of the setup, the four shares of galois_ring_to_rep3, the two
\* products of cross_mul_via_lift
SessionReturned(i) ==
    /\ pc[i] = "cross_done"
    /\ prf[i] # NoPrf
    /\ Len(loc[i].sh16) = 4
    /\ Len(loc[i].sh32) = 2

\* C29: in one session over a reliable FIFO transport every party
\* eventually returns Ok from setup_replicated_prf, from galois_ring_to_rep3
\* and from the exchange round of cross_mul_via_lift, and no party ever
\* returns an error: no party waits forever in a receive.
C29_EveryPartyReturnsOk ==
    /\ <>[](\A i \in Party : SessionReturned(i))
    /\ [](\A i \in Party : pc[i] # "error")

\* the three parties have returned from the exchange round, every message
\* sent was received, and on the way each party sent three messages
C29_Witness ==
    /\ scenario = "session"
    /\ \A i \in Party : pc[i] = "cross_done" /\ net[i] = <<>> /\ nsent[i] = 3
    /\ \A i \in Party : Len(loc[i].sh32) = 2

\* the labels at which a party of the session waits in its first, second
\* and third receive, and the k-th message a party sends in the session
SessionRecvLabel == <<"setup_recv", "rep3_recv", "cross_recv">>
SessionSent(j, k) ==
    CASE k = 1 -> SetupMessage(inp.seeds[j])
      [] k = 2 -> Msg("VecRing16",
                      IF pc[j] = "rep3_recv" THEN loc[j].sentA
                      ELSE [m \in 1 .. Len(loc[j].sh16) |-> loc[j].sh16[m].a])
      [] OTHER -> Msg("VecRing32", loc[j].sentA)

\* C30: in a session in which the three parties run the same operations at
\* arbitrary relative speeds, the k-th receive of a party from its previous
\* party obtains the k-th message that party sent, however many further
\* messages wait behind it, and the receiving party does not fail on a tag
\* or a length.
C30_KthReceiveGetsKthMessage ==
    [][\A i \in Party :
          LET j == PrevRole(i)
              k == nsent[j] - Len(net[j]) + 1
          IN  Len(net'[j]) < Len(net[j])
                 => /\ k \in 1 .. 3
                    /\ pc[i] = SessionRecvLabel[k]
                    /\ Received(i) = SessionSent(j, k)
                    /\ pc'[i] # "error"]_vars

\* a party has made its first receive while its previous party had already
\* sent the messages of all three rounds: two of them are still in flight
C30_Witness ==
    \E i \in Party :
        /\ scenario = "session"
        /\ pc[i] = "ready"
        /\ nsent[PrevRole(i)] = 3
        /\ Len(net[PrevRole(i)]) = 2
        /\ net[PrevRole(i)][1].tag = "VecRing16"
        /\ net[PrevRole(i)][2].tag = "VecRing32"

(***************************************************************************)
(* Order of the operations of one party (specification Spec).              *)
(***************************************************************************)
\* C31: a step of a party that draws zero-shares is taken with the Prf of a
\* completed setup; the MSB extraction acts on a value that the party made
\* from shares lift had returned to it; and a party of the reshare scenario
\* opens only after galois_ring_to_rep3 has returned its shares.
C31_OperationOrder ==
    [][\A i \in Party :
          /\ zs'[i] # zs[i]
                => /\ prf[i].ready
                   /\ pc[i] \notin {"start", "setup_recv"}
          /\ (pc[i] = "msb_wait" /\ pc'[i] = "msb_done")
                => /\ Len(loc[i].sh32) > 0
                   /\ scenario = "threshold"
                         => loc[i].x32 = ThresholdDiff(loc[i].sh32[Len(loc[i].sh32)], loc[i].y)
                   /\ scenario = "crosscmp"
                         => loc[i].x32 = CrossDiff(loc[i].sh32[1], loc[i].sh32[2])
          /\ (scenario = "reshare" /\ pc[i] # "openmany_recv" /\ pc'[i] = "openmany_recv")
                => /\ pc[i] = "rep3_done"
                   /\ Len(loc[i].sh16) = 2 * inp.n
                   /\ ToOpen(i) = loc[i].sh16]_vars

\* cross_compare has returned at the three parties: each drew its two
\* zero-shares after the setup and had its MSB extracted after the lift
C31_Witness ==
    /\ scenario = "crosscmp"
    /\ \A i \in Party :
          /\ pc[i] = "done"
          /\ Len(zs[i]) = 2
          /\ prf[i].ready
          /\ Len(loc[i].sh32) = 2

(***************************************************************************)
(* Cancellation (specifications SpecCancel and SpecCancelLive): the        *)
(* session of the three parties, in which one party's task may be          *)
(* cancelled at any point and a receive on an empty channel may time out.  *)
(* The transport is not part of the sources: its receive hands the         *)
(* timeout to the caller as the value received, and the match of the       *)
(* receiving operation (ops.rs:41-44, 141-145, 235-238) turns every value  *)
(* but the expected one into the operation's error.                        *)
(***************************************************************************)
InitCancel ==
    /\ InitCommon
    /\ faults = 1
    /\ scenario = "session"
    /\ inp = [seeds |-> TestSeeds, secrets |-> <<>>, n |-> 2]

SessionEnded(i) == pc[i] \in {"cross_done", "error", "cancelled"}
AwaitsReceive(i) == pc[i] \in {"setup_recv", "rep3_recv", "cross_recv"}

\* the task of party i is dropped: it takes no further step, and a message
\* it has not sent yet is never sent
Cancel(i) ==
    /\ faults > 0
    /\ ~SessionEnded(i)
    /\ Goto(i, "cancelled")
    /\ faults' = faults - 1
    /\ UNCHANGED <<scenario, inp, tape, prf, net, loc, out, zs, nsent, client, ingest,
                   gemm, rngs, monitor, devices>>

\* the receive of party i has waited on an empty channel for the length of
\* the timeout: the transport hands TransportTimeout to the caller
ReceiveTimeout(i) ==
    /\ AwaitsReceive(i)
    /\ ~CanReceive(i)
    /\ net' = [net EXCEPT ![PrevRole(i)] = <<Msg("TransportTimeout", <<>>)>>]
    /\ UNCHANGED <<otherVars, scenario, inp, tape, pc, prf, loc, out, zs, nsent>>

\* the receiving halves of the three rounds
SessionReceive(i) == SetupRecv(i) \/ ToRep3Recv(i) \/ CrossMulRecv(i)

CancelStep(i) ==
    \/ SetupSend(i)
    \/ PairwiseDistance(i)
    \/ ToRep3Send(i)
    \/ SessionCrossBegin(i)
    \/ SessionLift(i)
    \/ CrossMulSend(i)
    \/ SessionReceive(i)
    \/ ReceiveTimeout(i)
    \/ Cancel(i)

NextCancel == \E i \in Party : CancelStep(i)

SpecCancel == InitCancel /\ [][NextCancel]_vars

\* The timer of a pending receive runs whatever the other tasks do, and a
\* task whose receive has returned is polled again: a timeout that stays
\* due is delivered, and a receive that stays able to return does return.
SpecCancelLive ==
    SpecCancel /\ \A i \in Party : WF_vars(ReceiveTimeout(i)) /\ WF_vars(SessionReceive(i))

\* party i waits in the receive of a round whose message its previous party,
\* cancelled, has not sent
AwaitsCancelled(i) ==
    /\ AwaitsReceive(i)
    /\ pc[PrevRole(i)] = "cancelled"
    /\ net[PrevRole(i)] = <<>>

\* the tag of the message a party sends in its k-th round
SessionTag == <<"PrfKey", "VecRing16", "VecRing32">>

\* C32: a party waiting in the receive of a round whose message the
\* cancelled previous party never sent eventually returns an error; the
\* value its receive surfaced is TransportTimeout; a party that returned an
\* error or was cancelled sends nothing more; and the k-th message a party
\* sends is the message of its k-th round, so that no round's message is
\* sent twice.
C32_CancelledPeerTimesOut ==
    /\ \A i \in Party : AwaitsCancelled(i) ~> (pc[i] = "error")
    /\ [][\A i \in Party :
             /\ (AwaitsCancelled(i) /\ pc'[i] # pc[i])
                   => (Received(i).tag = "TransportTimeout" /\ pc'[i] = "error")
             /\ (pc[i] \in {"error", "cancelled"})
                   => (pc'[i] = pc[i] /\ nsent'[i] = nsent[i])
             /\ nsent'[i] # nsent[i]
                   => /\ nsent'[i] = nsent[i] + 1
                      /\ nsent'[i] <= 3
                      /\ net'[i][Len(net'[i])].tag = SessionTag[nsent'[i]]]_vars

\* party 1 was cancelled after the setup and before it sent its masked
\* items; party 2, waiting in galois_ring_to_rep3, got the timeout and
\* returned the error, having sent its own vector once
C32_Witness ==
    /\ pc[1] = "cancelled"
    /\ nsent[1] = 1
    /\ pc[2] = "error"
    /\ nsent[2] = 2
    /\ prf[2].ready
    /\ loc[2].sh16 = <<>>

(***************************************************************************)
(* Decode failures of galois_ring_to_rep3 (specification SpecFaultReshare): *)
(* the reshare scenario in which the transport replaces one message.       *)
(***************************************************************************)
InitFaultReshare ==
    /\ InitCommon
    /\ scenario = "reshare"
    /\ \E n \in 1 .. MaxPairs : inp = [seeds |-> TestSeeds, secrets |-> <<>>, n |-> n]
    /\ faults = 1

FaultReshareStep(i) ==
    \/ SetupSend(i)
    \/ SetupRecv(i)
    \/ PairwiseDistance(i)
    \/ ToRep3Send(i)
    \/ ToRep3Recv(i)
    \/ Tamper(i)

NextFaultReshare == \E i \in Party : FaultReshareStep(i)

SpecFaultReshare == InitFaultReshare /\ [][NextFaultReshare]_vars

\* C33 as stated: galois_ring_to_rep3 fails when the VecRing16 it receives
\* has a length other than the number of items sent, and when it returns it
\* returns one share per input element.
C33_RejectsWrongLength ==
    [][\A i \in Party :
          Receives(i, "rep3_recv")
             => /\ (Received(i).tag = "VecRing16" /\ Len(Received(i).val) # Len(loc[i].sentA))
                      => pc'[i] = "error"
                /\ pc'[i] = "rep3_done" => Len(loc'[i].sh16) = Len(loc[i].x16)]_vars

(***************************************************************************)
(* Local ring arithmetic on shares (specification SpecArith): each party   *)
(* applies the componentwise operations to its shares of two secrets, with *)
(* no message, as compare_threshold does with x *= A as u32; x -= y        *)
(* (ops.rs:66-67) and cross_compare with d2t1 - d1t2 (ops.rs:175).         *)
(***************************************************************************)
Edge32 == {U32(0, 0), U32(0, 1), U32(0, B - 1), U32(Half - 1, B - 1), U32(Half, 0),
           U32(B - 1, B - 1)}
\* Share<T> add: componentwise
ShareAdd(w, s, t) == Share(RAdd(w, s.a, t.a), RAdd(w, s.b, t.b))

\* the three shares of secret number k of the run, of width inp.w
ArithSharing(k) ==
    IF inp.w = 16 THEN CreateSingleSharing(tape, k, inp.secrets[k])
    ELSE FreshSharing32(tape, k, inp.secrets[k])

InitArith ==
    /\ InitCommon
    /\ faults = 0
    /\ scenario = "arith"
    /\ \E w \in {16, 32} :
       \E sec \in [1 .. 3 -> IF w = 16 THEN Edge16 ELSE Edge32] :
          inp = [seeds |-> TestSeeds, secrets |-> sec, n |-> 0, w |-> w]

\* party i computes x + y, x - y and x * c on its shares of x and y, c the
\* public third value; on u32 also the two expressions of ops.rs
ShareArith(i) ==
    /\ pc[i] = "start"
    /\ scenario = "arith"
    /\ LET w == inp.w
           x == ArithSharing(1)[i + 1]
           y == ArithSharing(2)[i + 1]
           c == inp.secrets[3]
       IN  out' = [out EXCEPT ![i] =
                      <<ShareAdd(w, x, y), ShareSub(w, x, y), ShareMulConst(w, x, c)>>
                      \o (IF w = 32 THEN <<ThresholdDiff(x, y), CrossDiff(x, y)>> ELSE <<>>)]
    /\ Goto(i, "done")
    /\ UNCHANGED <<otherVars, scenario, inp, tape, prf, net, loc, zs, nsent>>

NextArith == \E i \in Party : ShareArith(i)

SpecArith == InitArith /\ [][NextArith]_vars

\* the three parties' k-th results are a valid replicated sharing of v
SharingOf(w, k, v) ==
    /\ \A i \in Party : out[i][k].b = out[PrevRole(i)][k].a
    /\ Secret(w, out[0][k].a, out[1][k].a, out[2][k].a) = v

\* C34: once the three parties have applied the operations to their shares
\* of x and y, the results are valid replicated sharings of x + y, x - y and
\* x * c modulo 2^k, for k = 16 and 32; on u32 the expressions of
\* compare_threshold and cross_compare are sharings of x * A - y and y - x.
\* Every operation returns a value, whatever the operands.
C34_LocalArithmetic ==
    (scenario = "arith" /\ \A i \in Party : pc[i] = "done") =>
        LET w == inp.w
            x == inp.secrets[1]
            y == inp.secrets[2]
            c == inp.secrets[3]
        IN  /\ SharingOf(w, 1, RAdd(w, x, y))
            /\ SharingOf(w, 2, RSub(w, x, y))
            /\ SharingOf(w, 3, RMul(w, x, c))
            /\ w = 32 => /\ SharingOf(32, 4, Sub32(Mul32(x, U32(0, A)), y))
                         /\ SharingOf(32, 5, Sub32(y, x))

\* the three parties are done on u32 secrets whose sum, difference and
\* product all wrap: x = 2^32 - 1, y = 2^31, c = 2^32 - 1
C34_Witness ==
    /\ scenario = "arith"
    /\ \A i \in Party : pc[i] = "done"
    /\ inp.w = 32
    /\ inp.secrets = <<U32(B - 1, B - 1), U32(Half, 0), U32(B - 1, B - 1)>>
    /\ Secret(32, out[0][1].a, out[1][1].a, out[2][1].a) = U32(Half - 1, B - 1)
    /\ Secret(32, out[0][3].a, out[1][3].a, out[2][3].a) = U32(0, 1)

(***************************************************************************)
(* The shards of ShareDB::load_db (specification SpecShards): a DB of any  *)
(* number of rows is loaded on DeviceCount devices, in a build without     *)
(* overflow checks, with device buffers for max_db_length rows in all:     *)
(* as many as the DB has, as the tests pass, more, or none.  Every row     *)
(* starts with a byte of its own, by which it is found again in the        *)
(* shards.                                                                 *)
(***************************************************************************)
MaxRows == 5

\* the low limb, centred, of the first entry of row r
RowKey(seed, r) == AsI8(((r + seed) % Byte) - 128)
ShardDb(seed, rows) ==
    [p \in 1 .. rows * IRIS_CODE_LENGTH |->
        IF (p - 1) % IRIS_CODE_LENGTH = 0 THEN (((p - 1) \div IRIS_CODE_LENGTH) + seed) % Byte
        ELSE (seed * 7919 + p * 7723 + 12345) % (B - 1)]

InitShards ==
    /\ InitProtocolIdle
    /\ faults = 0 /\ client = Idle /\ ingest = Idle /\ rngs = Idle
    /\ monitor = Idle /\ devices = Idle
    /\ \E rows \in 0 .. MaxRows, sd \in 0 .. MaxGemmSeed, alt \in BOOLEAN :
       \E max_db_length \in {0, rows, rows + DeviceCount} :
          gemm = [db |-> ShardDb(sd, rows), db_length |-> rows,
                  max_db_length |-> max_db_length, seed |-> sd,
                  alternating_chunks |-> alt, loaded |-> FALSE, db_slices |-> Ok(<<>>)]

\* engine.load_db(&db, db_length, max_db_length, alternating_chunks)
LoadShards ==
    /\ ~gemm.loaded
    /\ \E loaded \in LoadDbOutcomes(LoadDb(gemm.db, gemm.db_length, gemm.max_db_length,
                                            gemm.alternating_chunks, FALSE)) :
          gemm' = [gemm EXCEPT !.loaded = TRUE, !.db_slices = loaded]
    /\ UNCHANGED <<protocolVars, faults, client, ingest, rngs, monitor, devices>>

SpecShards == InitShards /\ [][LoadShards]_vars

\* the device that the claim gives row i of a DB of db_length rows
ShardOf(i, db_length, alternating) ==
    IF alternating THEN i % DeviceCount ELSE i \div (db_length \div DeviceCount)
\* the rows found in the shard of device d (0-based), in the order stored
RowsOnDevice(d) ==
    LET chunk == gemm.db_slices.val.db0[d + 1]
    IN  [j \in 1 .. Len(chunk) \div IRIS_CODE_LENGTH |->
            CHOOSE r \in 0 .. gemm.db_length - 1 :
                RowKey(gemm.seed, r) = chunk[(j - 1) * IRIS_CODE_LENGTH + 1]]
\* load_db returned DeviceCount shards, each within its device buffer, and
\* every row is in the shard of the claim's device and in no other, once
ShardsPartition ==
    /\ gemm.db_slices.ok
    /\ ~gemm.db_slices.val.out_of_bounds
    /\ Len(gemm.db_slices.val.db0) = DeviceCount
    /\ Len(gemm.db_slices.val.db0_sums) = DeviceCount
    /\ \A i \in 0 .. gemm.db_length - 1 : \A d \in 0 .. DeviceCount - 1 :
          Cardinality({j \in 1 .. Len(RowsOnDevice(d)) : RowsOnDevice(d)[j] = i})
              = IF d = ShardOf(i, gemm.db_length, gemm.alternating_chunks) THEN 1 ELSE 0

\* C35 as stated: whatever the number of rows and the mode, load_db leaves
\* every row on exactly the device i mod n (alternating) or
\* floor(i / (db_length / n)) (contiguous), in device_count shards.
C35_ShardsPartitionAlways ==
    gemm.loaded => ShardsPartition

\* the part of the statement that holds, when max_db_length is at least
\* db_length: in alternating mode when the device buffers hold the larger
\* shards (db_length a multiple of device_count, or max_db_length larger by
\* device_count), and in contiguous mode when db_length is a positive
\* multiple of device_count
ShardsPartitionOnMultiples ==
    (gemm.loaded /\ gemm.max_db_length >= gemm.db_length
                 /\ \/ /\ gemm.alternating_chunks
                        /\ \/ gemm.db_length % DeviceCount = 0
                           \/ gemm.max_db_length >= gemm.db_length + DeviceCount
                     \/ /\ ~gemm.alternating_chunks
                        /\ gemm.db_length > 0 /\ gemm.db_length % DeviceCount = 0)
        => ShardsPartition
\* in alternating mode on any other length some shard is copied past the
\* end of its device buffer
ShardsOverrunOtherwise ==
    (gemm.loaded /\ gemm.alternating_chunks /\ gemm.db_length % DeviceCount # 0
                 /\ gemm.max_db_length = gemm.db_length)
        => ~gemm.db_slices.ok \/ gemm.db_slices.val.out_of_bounds
\* in contiguous mode load_db panics on every other length
ShardsPanicOtherwise ==
    (gemm.loaded /\ ~gemm.alternating_chunks
                 /\ (gemm.db_length = 0 \/ gemm.db_length % DeviceCount # 0))
        => ~gemm.db_slices.ok
\* with device buffers for no row, every load of a DB of DeviceCount rows
\* or more copies past a buffer, whether or not it goes on to panic on the
\* device index: the driver's error is among the outcomes
ShardsOverrunBeforePanic ==
    (~gemm.loaded /\ gemm.max_db_length = 0 /\ gemm.db_length >= DeviceCount)
        => Err("device copy out of bounds")
              \in LoadDbOutcomes(LoadDb(gemm.db, gemm.db_length, gemm.max_db_length,
                                        gemm.alternating_chunks, FALSE))

(***************************************************************************)
(* The block counters of one ChaChaCudaCorrRng (specification              *)
(* SpecRngCounters): any sequence of fill_rng_into, fill_my_rng_into,      *)
(* fill_their_rng_into, advance_by_bytes, and set_counter or set_nonce on  *)
(* a context handed out by get_mut_chacha, on the instance of              *)
(* test_chacha_rng, in a build with or without overflow checks.            *)
(* rngs.produced counts, per context, the blocks produced or skipped so    *)
(* far; rngs.base is the counter last set and rngs.since the blocks        *)
(* produced or skipped since then; rngs.lost counts the blocks a panicking *)
(* call launched without advancing the counter; rngs.launches lists the    *)
(* kernel launches with the block range each covers.                       *)
(***************************************************************************)
\* mutant: the counters advance by the number of words
AdvanceByBytes_PerWord(rng, bytes, overflow_checks) ==
    LET num_ks_calls == bytes \div 4
        advanced1 == [rng EXCEPT !.chacha_ctx1 = AdvanceCounter(@, num_ks_calls)]
    IN  IF bytes % 64 # 0
        THEN ErrLeaving("bytes must be a multiple of 64",
                        [buf |-> <<>>, rng |-> rng, launched |-> <<>>, advanced |-> {}])
        ELSE IF overflow_checks /\ CounterOverflows(rng.chacha_ctx1, num_ks_calls)
        THEN ErrLeaving("attempt to add with overflow",
                        [buf |-> <<>>, rng |-> rng, launched |-> <<>>, advanced |-> {}])
        ELSE IF overflow_checks /\ CounterOverflows(rng.chacha_ctx2, num_ks_calls)
        THEN ErrLeaving("attempt to add with overflow",
                        [buf |-> <<>>, rng |-> advanced1, launched |-> <<>>,
                         advanced |-> {1}])
        ELSE Ok([buf |-> <<>>,
                 rng |-> [advanced1 EXCEPT !.chacha_ctx2 = AdvanceCounter(@, num_ks_calls)],
                 launched |-> <<>>, advanced |-> {1, 2}])
\* advance_by_bytes(bytes): the first counter is advanced, then the second
AdvanceByBytes(rng, bytes, overflow_checks) ==
    LET num_ks_calls == bytes \div 64
        advanced1 == [rng EXCEPT !.chacha_ctx1 = AdvanceCounter(@, num_ks_calls)]
    IN  IF bytes % 64 # 0
        THEN ErrLeaving("bytes must be a multiple of 64",
                        [buf |-> <<>>, rng |-> rng, launched |-> <<>>, advanced |-> {}])
        ELSE IF overflow_checks /\ CounterOverflows(rng.chacha_ctx1, num_ks_calls)
        THEN ErrLeaving("attempt to add with overflow",
                        [buf |-> <<>>, rng |-> rng, launched |-> <<>>, advanced |-> {}])
        ELSE IF overflow_checks /\ CounterOverflows(rng.chacha_ctx2, num_ks_calls)
        THEN ErrLeaving("attempt to add with overflow",
                        [buf |-> <<>>, rng |-> advanced1, launched |-> <<>>,
                         advanced |-> {1}])
        ELSE Ok([buf |-> <<>>,
                 rng |-> [advanced1 EXCEPT !.chacha_ctx2 = AdvanceCounter(@, num_ks_calls)],
                 launched |-> <<>>, advanced |-> {1, 2}])

\* fill_my_rng_into(buf, stream): kernel chacha12 on the first context,
\* then the counter advanced
FillMyRngInto(rng, buf, overflow_checks) ==
    LET len == Len(buf)
        num_ks_calls == len \div 16
        written == ChaCha12(buf, rng.state1_gpu_buf, rng.chacha_ctx1[13],
                            rng.chacha_ctx1[14], len)
    IN  IF len % 16 # 0
        THEN ErrLeaving("buffer length must be a multiple of 16",
                        [buf |-> buf, rng |-> rng, launched |-> <<>>, advanced |-> {}])
        ELSE IF overflow_checks /\ CounterOverflows(rng.chacha_ctx1, num_ks_calls)
        THEN ErrLeaving("attempt to add with overflow",
                        [buf |-> written, rng |-> rng, launched |-> <<1>>,
                         advanced |-> {}])
        ELSE Ok([buf |-> written,
                 rng |-> [rng EXCEPT !.chacha_ctx1 = AdvanceCounter(@, num_ks_calls)],
                 launched |-> <<1>>, advanced |-> {1}])

\* fill_their_rng_into(buf, stream): kernel chacha12 on the second
\* context, then the counter advanced
FillTheirRngInto(rng, buf, overflow_checks) ==
    LET len == Len(buf)
        num_ks_calls == len \div 16
        written == ChaCha12(buf, rng.state2_gpu_buf, rng.chacha_ctx2[13],
                            rng.chacha_ctx2[14], len)
    IN  IF len % 16 # 0
        THEN ErrLeaving("buffer length must be a multiple of 16",
                        [buf |-> buf, rng |-> rng, launched |-> <<>>, advanced |-> {}])
        ELSE IF overflow_checks /\ CounterOverflows(rng.chacha_ctx2, num_ks_calls)
        THEN ErrLeaving("attempt to add with overflow",
                        [buf |-> written, rng |-> rng, launched |-> <<2>>,
                         advanced |-> {}])
        ELSE Ok([buf |-> written,
                 rng |-> [rng EXCEPT !.chacha_ctx2 = AdvanceCounter(@, num_ks_calls)],
                 launched |-> <<2>>, advanced |-> {2}])

\* get_mut_chacha() and set_counter or set_nonce on context c: the host
\* copy of the state changes, the device copy of init stays
GetMutChachaSet(rng, c, field, value) ==
    LET set(state) == IF field = "counter" THEN SetCounter(state, value)
                      ELSE SetNonce(state, value)
    IN  IF c = 1 THEN [rng EXCEPT !.chacha_ctx1 = set(@)]
        ELSE [rng EXCEPT !.chacha_ctx2 = set(@)]

\* the counters a caller sets: 0, 2^32 - 1, 2^32, 2^64 - 1
CounterValues ==
    {Zero64, U64(Zero32, U32(B - 1, B - 1)), U64(U32(0, 1), Zero32),
     U64(U32(B - 1, B - 1), U32(B - 1, B - 1))}

InitRngCounters ==
    /\ InitProtocolIdle
    /\ faults = 0 /\ client = Idle /\ ingest = Idle /\ gemm = Idle
    /\ monitor = Idle /\ devices = Idle
    /\ \E b \in 1 .. MaxSeedWord, oc \in BOOLEAN :
          rngs = [rng |-> ChaChaCudaCorrRngInit([n \in 1 .. 8 |-> FromU16(0)],
                                                [n \in 1 .. 8 |-> FromU16(b)]),
                  overflow_checks |-> oc,
                  produced |-> <<0, 0>>, base |-> <<Zero64, Zero64>>,
                  since |-> <<0, 0>>, lost |-> <<0, 0>>, epoch |-> <<0, 0>>,
                  launches |-> <<>>,
                  op |-> "init", data |-> <<>>, calls |-> 0, panicked |-> FALSE]

\* the counter of context c of the instance
CounterOf(rng, c) ==
    GetValue(IF c = 1 THEN rng.chacha_ctx1 ELSE rng.chacha_ctx2, 12)

\* one call on the instance, returned or panicked: the instance and the
\* buffer it leaves, the kernel launches it made, each over blocks blocks
\* from the counter its context had at the launch, and the contexts whose
\* counter it advanced; rngs.lost counts the blocks launched from a context
\* whose counter the call did not reach to advance
RngCalled(op, result, blocks) ==
    LET launched == result.val.launched
        advanced == result.val.advanced
        counted(c) == IF \E k \in 1 .. Len(launched) : launched[k] = c THEN TRUE
                      ELSE c \in advanced
    IN  rngs' =
           [rngs EXCEPT
                !.panicked = ~result.ok,
                !.rng = result.val.rng,
                !.op = op,
                !.data = IF launched = <<>> THEN <<>> ELSE result.val.buf,
                !.calls = IF result.ok THEN @ + 1 ELSE @,
                !.launches = @ \o [k \in 1 .. Len(launched) |->
                                      [ctx |-> launched[k],
                                       from |-> CounterOf(rngs.rng, launched[k]),
                                       produced |-> rngs.produced[launched[k]],
                                       since |-> rngs.since[launched[k]],
                                       epoch |-> rngs.epoch[launched[k]],
                                       blocks |-> blocks]],
                !.produced = [c \in 1 .. 2 |-> IF counted(c) THEN @[c] + blocks ELSE @[c]],
                !.since = [c \in 1 .. 2 |-> IF counted(c) THEN @[c] + blocks ELSE @[c]],
                !.lost = [c \in 1 .. 2 |-> IF counted(c) /\ c \notin advanced
                                           THEN @[c] + blocks ELSE @[c]]]

RngCall ==
    /\ ~rngs.panicked
    /\ rngs.calls < MaxFills
    /\ \/ \E len \in {16 * k : k \in 1 .. MaxBlocks} \cup {8} :
             LET zeroed == [p \in 1 .. len |-> Zero32]
             IN  \/ RngCalled("fill_rng_into",
                              FillRngInto(rngs.rng, zeroed, rngs.overflow_checks),
                              len \div 16)
                 \/ RngCalled("fill_my_rng_into",
                              FillMyRngInto(rngs.rng, zeroed, rngs.overflow_checks),
                              len \div 16)
                 \/ RngCalled("fill_their_rng_into",
                              FillTheirRngInto(rngs.rng, zeroed, rngs.overflow_checks),
                              len \div 16)
       \/ \E bytes \in {64 * k : k \in 1 .. MaxBlocks} \cup {32} :
             RngCalled("advance_by_bytes",
                       AdvanceByBytes(rngs.rng, bytes, rngs.overflow_checks),
                       bytes \div 64)
    /\ UNCHANGED <<protocolVars, faults, client, ingest, gemm, monitor, devices>>

\* the caller sets the counter or the nonce of one context
RngSet ==
    /\ ~rngs.panicked
    /\ rngs.calls < MaxFills
    /\ \E c \in 1 .. 2 :
          \/ \E value \in CounterValues :
                rngs' = [rngs EXCEPT
                            !.rng = GetMutChachaSet(@, c, "counter", value),
                            !.op = "set_counter", !.data = <<>>, !.calls = @ + 1,
                            !.base[c] = value, !.since[c] = 0, !.epoch[c] = @ + 1]
          \/ rngs' = [rngs EXCEPT
                         !.rng = GetMutChachaSet(@, c, "nonce", FromInt64(1)),
                         !.op = "set_nonce", !.data = <<>>, !.calls = @ + 1]
    /\ UNCHANGED <<protocolVars, faults, client, ingest, gemm, monitor, devices>>

NextRngCounters == RngCall \/ RngSet

SpecRngCounters == InitRngCounters /\ [][NextRngCounters]_vars

\* the keystream of a context from block number from (a u64) on
ContextStream(c, from, len) ==
    KeyStream(IF c = 1 THEN rngs.rng.state1_gpu_buf ELSE rngs.rng.state2_gpu_buf,
              Low32(from), High32(from), len)
\* the blocks the instance had produced or skipped in context c before its
\* last call, which wrote rngs.data
ProducedBefore(c) == rngs.produced[c] - Len(rngs.data) \div 16
\* the counter of context c before the last call, a fill that wrote
\* rngs.data: the counter last set and the blocks since, modulo 2^64
CounterBefore(c) ==
    Add64(rngs.base[c], FromInt64(rngs.since[c] - Len(rngs.data) \div 16))

\* C36 as stated: the counter of each context is the number of blocks
\* produced from or skipped in it, the words a fill writes are the
\* keystream of its context from that block on, and two launches on one
\* context cover disjoint block ranges.
C36_CountersCountBlocks ==
    /\ \A c \in 1 .. 2 : CounterOf(rngs.rng, c) = FromInt64(rngs.produced[c])
    /\ (rngs.op = "fill_my_rng_into" /\ ~rngs.panicked)
          => rngs.data = ContextStream(1, FromInt64(ProducedBefore(1)), Len(rngs.data))
    /\ (rngs.op = "fill_their_rng_into" /\ ~rngs.panicked)
          => rngs.data = ContextStream(2, FromInt64(ProducedBefore(2)), Len(rngs.data))
    /\ \A k \in 1 .. Len(rngs.launches), l \in 1 .. Len(rngs.launches) :
          (k < l /\ rngs.launches[k].ctx = rngs.launches[l].ctx)
             => /\ rngs.launches[k].from = FromInt64(rngs.launches[k].produced)
                /\ rngs.launches[l].from = FromInt64(rngs.launches[l].produced)
                /\ rngs.launches[k].produced + rngs.launches[k].blocks
                      <= rngs.launches[l].produced

\* C36 amended: the counter of each context is the value it was last set
\* to (0 by init, any value by set_counter through get_mut_chacha) plus the
\* blocks produced from or skipped in the context since, modulo 2^64: a
\* fill of len words adds len / 16 and advance_by_bytes(b) adds b / 64.  The
\* words a fill writes are the keystream of its context from that counter
\* on, and every launch starts where the blocks since the last set ended,
\* so the launches between two sets cover block ranges that follow one
\* another.  Only a call that panics on a counter passing 2^64 leaves
\* blocks uncounted: those of the kernel it launched before the addition.
C36_CountersFollowLastSet ==
    /\ \A c \in 1 .. 2 :
          /\ CounterOf(rngs.rng, c)
                = Add64(rngs.base[c], FromInt64(rngs.since[c] - rngs.lost[c]))
          /\ rngs.lost[c] # 0
                => /\ rngs.panicked /\ rngs.overflow_checks
                   /\ Overflows64(CounterOf(rngs.rng, c), FromInt64(rngs.lost[c]))
    /\ rngs.op = "fill_my_rng_into"
          => rngs.data = ContextStream(1, CounterBefore(1), Len(rngs.data))
    /\ rngs.op = "fill_their_rng_into"
          => rngs.data = ContextStream(2, CounterBefore(2), Len(rngs.data))
    /\ (rngs.op = "fill_rng_into" /\ ~rngs.panicked)
          => rngs.data = [p \in 1 .. Len(rngs.data) |->
                            Xor32(ContextStream(1, CounterBefore(1), Len(rngs.data))[p],
                                  ContextStream(2, CounterBefore(2), Len(rngs.data))[p])]
    /\ \A k \in 1 .. Len(rngs.launches), l \in 1 .. Len(rngs.launches) :
          (/\ k < l
           /\ rngs.launches[k].ctx = rngs.launches[l].ctx
           /\ rngs.launches[k].epoch = rngs.launches[l].epoch)
             => /\ rngs.launches[k].since + rngs.launches[k].blocks <= rngs.launches[l].since
                /\ rngs.launches[l].from
                      = Add64(rngs.launches[k].from,
                              FromInt64(rngs.launches[l].since - rngs.launches[k].since))

\* the counter of the second context was set to 2^32 - 1 and two blocks
\* were filled from it: the launch started at 2^32 - 1, the counter is
\* 2^32 + 1, and the first context stays at 0
C36_Witness ==
    /\ rngs.op = "fill_their_rng_into"
    /\ ~rngs.panicked
    /\ rngs.calls = 2
    /\ Len(rngs.data) = 32
    /\ rngs.launches[1].from = U64(Zero32, U32(B - 1, B - 1))
    /\ CounterOf(rngs.rng, 2) = U64(U32(0, 1), U32(0, 1))
    /\ CounterOf(rngs.rng, 1) = Zero64
    /\ rngs.data # ContextStream(2, Zero64, 32)
    /\ SubSeq(rngs.data, 17, 32) = ContextStream(2, U64(U32(0, 1), Zero32), 16)

(***************************************************************************)
(* The positions of the Prf streams over one session (specification        *)
(* SpecSession).                                                           *)
(***************************************************************************)
\* the zero-shares party i has drawn in ops.rs when it stands at pc[i]:
\* none up to the call of galois_ring_to_rep3, one per item once it has
\* sent its masked items, two more once it has sent its products
SessionDrawn(i) ==
    CASE pc[i] \in {"start", "setup_recv", "ready", "dist_done"} -> 0
      [] pc[i] \in {"rep3_recv", "rep3_done", "lift_wait", "lifted"} -> Len(loc[i].x16)
      [] pc[i] \in {"cross_recv", "cross_done"} -> Len(loc[i].x16) + 2
      [] OTHER -> 0 - 1
\* the zero-shares the three parties would draw next, summed
NextZeroSum(w) ==
    Secret(w, GenZeroShare(w, prf[0], 0), GenZeroShare(w, prf[1], 0),
              GenZeroShare(w, prf[2], 0))

\* C37: a party has drawn one zero-share per item when it has sent in
\* galois_ring_to_rep3 and two more when it has sent in cross_mul_via_lift,
\* from both of its streams alike; so when the three parties have returned
\* from the same operations they have drawn equally many, and the
\* zero-shares they would draw next sum to zero.
C37_PrfStreamsAligned ==
    /\ \A i \in Party :
          /\ pc[i] \notin {"start", "setup_recv"} => prf[i].ready
          /\ prf[i].myCnt = SessionDrawn(i)
          /\ prf[i].prevCnt = SessionDrawn(i)
          /\ Len(zs[i]) = SessionDrawn(i)
    /\ \A l \in {"ready", "rep3_done", "cross_done"} :
          (\A i \in Party : pc[i] = l)
             => /\ \A i \in Party : prf[i].myCnt = prf[0].myCnt /\ prf[i].prevCnt = prf[0].myCnt
                /\ NextZeroSum(16) = 0
                /\ NextZeroSum(32) = Zero32

\* the three parties have returned from galois_ring_to_rep3 on four items
\* and from cross_mul_via_lift: six zero-shares drawn each
C37_Witness ==
    /\ \A i \in Party :
          /\ pc[i] = "cross_done"
          /\ Len(loc[i].x16) = 4
          /\ prf[i].myCnt = 6
          /\ Len(zs[i]) = 6
    /\ GenZeroShare(16, prf[0], 0) # 0

(***************************************************************************)
(* The range of the difference cross_compare takes the MSB of              *)
(* (specification Spec, scenario crosscmp).                                *)
(***************************************************************************)
\* d2 * t1 - d1 * t2 over the integers, the four secrets read as signed
\* 16-bit values
TrueDiff ==
    Signed16(inp.secrets[3]) * Signed16(inp.secrets[2])
        - Signed16(inp.secrets[1]) * Signed16(inp.secrets[4])
\* 2^31 - 1
MaxSigned32 == (Half - 1) * B + (B - 1)
\* the u32 that represents the integer v, -2^31 < v < 2^31
Wrap32(v) == IF v >= 0 THEN FromInt(v) ELSE Neg32(FromInt(0 - v))
\* the value the three parties hold shares of when they call
\* single_extract_msb_u32
SharedDiff == Secret(32, loc[0].x32.a, loc[1].x32.a, loc[2].x32.a)

\* C38: the integer d2 * t1 - d1 * t2 lies strictly between -2^31 and 2^31;
\* the value cross_compare hands to the MSB extraction is that integer
\* modulo 2^32, its MSB is set exactly when the integer is negative, and
\* that is what every party returns.
C38_DiffNeverWraps ==
    scenario = "crosscmp" =>
        /\ 0 - MaxSigned32 <= TrueDiff /\ TrueDiff <= MaxSigned32
        /\ (\A i \in Party : pc[i] \in {"msb_wait", "msb_done", "openbin_recv", "done"})
              => /\ SharedDiff = Wrap32(TrueDiff)
                 /\ Msb32(SharedDiff) <=> TrueDiff < 0
        /\ \A i \in Party : pc[i] = "done" => out[i] = <<TrueDiff < 0>>

\* cross_compare has returned on d1 = -2^15, t1 = -2^15, d2 = -2^15,
\* t2 = 2^15 - 1: the difference is 2^31 - 2^15, the largest there is, and
\* every party returns false
C38_Witness ==
    /\ scenario = "crosscmp"
    /\ inp.secrets = <<Half, Half, Half, Half - 1>>
    /\ TrueDiff = MaxSigned32 - (Half - 1)
    /\ \A i \in Party : pc[i] = "done" /\ out[i] = <<FALSE>>
    /\ SharedDiff = U32(Half - 1, Half)

(***************************************************************************)
(* The panics of monitored tasks over the life of a TaskMonitor            *)
(* (specification SpecTasks).                                              *)
(***************************************************************************)
\* the messages of the panics a panicked task's result raises: the
\* resumed panic of the task, and the expect of check_tasks
TaskPanicMessages == {"task panic", "Monitored task was panicked or cancelled"}

\* C39: the call that takes the result of a panicked task out of the set
\* panics on it, whichever call it is; and a drop that has returned has
\* left no panicked task behind, in the set or taken from it.
C39_NoPanicLost ==
    /\ \A t \in TaskIds :
          (monitor.tasks[t].st = "panicked" /\ ~monitor.tasks[t].member)
             => monitor.pc = "panicked" /\ monitor.message \in TaskPanicMessages
    /\ monitor.pc = "dropped"
          => /\ \A t \in TaskIds : monitor.tasks[t].st # "panicked"
             /\ Owned(monitor) = {}

\* check_tasks_finished_ignoring_hangs has resumed the panic of one task
\* while the other was still running
C39_Witness ==
    /\ monitor.op = "check_tasks_finished_ignoring_hangs"
    /\ monitor.pc = "panicked"
    /\ monitor.message = "task panic"
    /\ \E t \in TaskIds : monitor.tasks[t].st = "panicked" /\ ~monitor.tasks[t].member
    /\ \E t \in TaskIds : monitor.tasks[t].st = "running" /\ monitor.tasks[t].member

====
